---- MODULE Spec2Model ----
(***************************************************************************)
(* A model of the Splendor rules engine (crate core_mechanics): the token  *)
(* ledger of bank.rs, the purchase algorithm of production_card.rs, the    *)
(* player operations of player.rs and the action dispatcher of board.rs.   *)
(*                                                                         *)
(* Funds are HashMap<Piece, u8>.  Wherever the code iterates over such a   *)
(* map and the order of the traversal decides the outcome, the model       *)
(* returns the set of outcomes every traversal order can produce.          *)
(***************************************************************************)
EXTENDS Integers, Sequences, FiniteSets, TLC

VARIABLES
    players,          \* Board.players: sequence of Player records
    player_turn,      \* Board.player_turn: 0-based index into players
    bank,             \* Board.bank: Funds
    decks,            \* Board.decks: tier -> sequence of cards (top = end)
    cards_for_sale,   \* Board.cards_for_sale: tier -> sequence of cards
    nobles,           \* Board.nobles: the noble pool
    action_needed,    \* Board.action_needed: "Normal" | "SelectNoble"
    round_type,       \* Board.round_type: "Normal" | "LastRound"
    winner,           \* Board.winner: <<>> (None) or <<w>> (Some(w))
    last_action,      \* the Action of the latest do_action call
    last_result,      \* what that call returned: Ok or the ActionFail
    actions_done,     \* how many calls of do_action have returned a board
    collect_request,  \* a CollectRequest handed to Funds::collect
    collect_response, \* <<>> before the call, <<r>> once it has returned r
    buy_request,      \* the player and card handed to ProductionCard::buy
    buy_response,     \* <<>> before the call, <<r>> once it has returned r
    new_request,      \* the arguments handed to Board::new
    new_response,     \* <<>> before the call, <<b>> once it has returned b
    funds_request,    \* the Funds values handed to +, - and Vec::from
    funds_response,   \* <<>> before the call, <<r>> once it has returned r
    seats,            \* subscribe_server_loop: seats, the nodes that joined
    is_game_running,  \* subscribe_server_loop: is_game_running
    last_message,     \* the Message the server loop handled last
    last_reply,       \* what the server broadcast while handling it
    messages_done     \* how many messages the server loop has handled

board_vars == <<players, player_turn, bank, decks, cards_for_sale, nobles,
                action_needed, round_type, winner>>

call_vars == <<last_action, last_result, actions_done>>

collect_vars == <<collect_request, collect_response>>

buy_vars == <<buy_request, buy_response>>

new_vars == <<new_request, new_response>>

funds_vars == <<funds_request, funds_response>>

server_vars == <<seats, is_game_running, last_message, last_reply, messages_done>>

\* The variables of the calls made outside a game.
pure_vars == <<collect_request, collect_response, buy_request, buy_response,
               new_request, new_response, funds_request, funds_response,
               seats, is_game_running, last_message, last_reply, messages_done>>

vars == <<players, player_turn, bank, decks, cards_for_sale, nobles,
          action_needed, round_type, winner, last_action, last_result,
          actions_done, collect_request, collect_response, buy_request,
          buy_response, new_request, new_response, funds_request,
          funds_response, seats, is_game_running, last_message, last_reply,
          messages_done>>

----------------------------------------------------------------------------
(* piece.rs *)

Red == "Red"

Green == "Green"

Blue == "Blue"

Brown == "Brown"

White == "White"

Golden == "Golden"

Pieces == {Red, Green, Blue, Brown, White, Golden}

\* A placeholder for "no piece" in results that name none.
NoPiece == "NoPiece"

\* Placeholders for "no call made yet" and "no message handled yet".
NoFundsRequest == [a |-> "None", b |-> "None", c |-> "None"]

NoMessage == [type |-> "None", from |-> "None", action |-> "None"]

----------------------------------------------------------------------------
(* bank.rs: Funds *)

MIN_PILE_SIZE_TO_COLLECT_TWO_EQUALS == 4

FundsNew(red, green, blue, brown, white, golden) ==
    [p \in Pieces |->
        CASE p = Red -> red
          [] p = Green -> green
          [] p = Blue -> blue
          [] p = Brown -> brown
          [] p = White -> white
          [] OTHER -> golden]

new_from_list(list) ==
    [p \in Pieces |-> Cardinality({i \in DOMAIN list : list[i] = p})]

FundsAdd(a, b) == [p \in Pieces |-> a[p] + b[p]]

FundsSubError(piece) == [ok |-> FALSE, piece |-> piece, funds |-> FundsNew(0, 0, 0, 0, 0, 0)]

FundsSubOk(funds) == [ok |-> TRUE, piece |-> NoPiece, funds |-> funds]

\* The pieces of rhs the traversal of rhs.funds can stop at.
ShortPieces(a, b) == {p \in Pieces : b[p] > a[p]}

FundsSub_SkipsEmptyPiles(a, b) ==
    LET short == {p \in Pieces : a[p] > 0 /\ b[p] > a[p]}
    IN  IF short = {}
        THEN {FundsSubOk([p \in Pieces |-> IF a[p] = 0 THEN 0 ELSE a[p] - b[p]])}
        ELSE {FundsSubError(p) : p \in short}

\* a - b: the traversal of rhs.funds is in the map's own order, so the piece
\* named by NotEnoughFunds is any piece that is short.
FundsSub(a, b) ==
    IF ShortPieces(a, b) = {}
    THEN {FundsSubOk([p \in Pieces |-> a[p] - b[p]])}
    ELSE {FundsSubError(p) : p \in ShortPieces(a, b)}

RECURSIVE SumOver(_, _)
SumOver(f, S) ==
    IF S = {} THEN 0
    ELSE LET x == CHOOSE y \in S : TRUE
         IN f[x] + SumOver(f, S \ {x})

\* new_player_funds.funds.iter().map(|fund| *fund.1).sum::<u8>()
FundsTotal(funds) == SumOver(funds, Pieces)

----------------------------------------------------------------------------
(* bank.rs: Funds::collect *)

CollectRequestNew(bank_funds, player_funds, want_to_collect, discard) ==
    [bank_funds |-> bank_funds, player_funds |-> player_funds,
     want_to_collect |-> want_to_collect, discard |-> discard]

CollectErr(error, piece) ==
    [ok |-> FALSE, error |-> error, piece |-> piece,
     bank_funds |-> FundsNew(0, 0, 0, 0, 0, 0),
     player_funds |-> FundsNew(0, 0, 0, 0, 0, 0)]

CollectSuccessNew(bank_funds, player_funds) ==
    [ok |-> TRUE, error |-> "None", piece |-> NoPiece,
     bank_funds |-> bank_funds, player_funds |-> player_funds]

ContainsGolden_FirstOnly(want_to_collect) ==
    want_to_collect # <<>> /\ want_to_collect[1] = Golden

\* for p in &want_to_collect { if p == &Piece::Golden { return Err(..) } }
ContainsGolden(want_to_collect) ==
    \E i \in DOMAIN want_to_collect : want_to_collect[i] = Golden

PairErrors_PileFirst(request, total, bank_funds) ==
    {IF bank_funds[p] < MIN_PILE_SIZE_TO_COLLECT_TWO_EQUALS
        THEN CollectErr("CannotCollect2WhenResourceIsAlmostEmpty", NoPiece)
        ELSE CollectErr("Collected2OfTheSameWithAnother", NoPiece) :
     p \in {q \in Pieces :
              /\ request[q] >= 2
              /\ \/ total = 3
                 \/ bank_funds[q] < MIN_PILE_SIZE_TO_COLLECT_TWO_EQUALS}}

PairErrors_ExactlyTwo(request, total, bank_funds) ==
    {IF total = 3
        THEN CollectErr("Collected2OfTheSameWithAnother", NoPiece)
        ELSE CollectErr("CannotCollect2WhenResourceIsAlmostEmpty", NoPiece) :
     p \in {q \in Pieces :
              /\ request[q] = 2
              /\ \/ total = 3
                 \/ bank_funds[q] < MIN_PILE_SIZE_TO_COLLECT_TWO_EQUALS}}

PairErrors_PileBelowThree(request, total, bank_funds) ==
    {IF total = 3
        THEN CollectErr("Collected2OfTheSameWithAnother", NoPiece)
        ELSE CollectErr("CannotCollect2WhenResourceIsAlmostEmpty", NoPiece) :
     p \in {q \in Pieces :
              /\ request[q] >= 2
              /\ \/ total = 3
                 \/ bank_funds[q] < MIN_PILE_SIZE_TO_COLLECT_TWO_EQUALS - 1}}

\* The loop over player_request_as_funds.funds: the errors it can return, one
\* per piece the traversal can stop at (none when it runs to its end).
PairErrors(request, total, bank_funds) ==
    {IF total = 3
        THEN CollectErr("Collected2OfTheSameWithAnother", NoPiece)
        ELSE CollectErr("CannotCollect2WhenResourceIsAlmostEmpty", NoPiece) :
     p \in {q \in Pieces :
              /\ request[q] >= 2
              /\ \/ total = 3
                 \/ bank_funds[q] < MIN_PILE_SIZE_TO_COLLECT_TWO_EQUALS}}

NewBankFunds_DiscardLost(req) ==
    FundsSub(req.bank_funds, new_from_list(req.want_to_collect))

\* (bank_funds + discard_cards_as_funds) - player_request_as_funds
NewBankFunds(req) ==
    FundsSub(FundsAdd(req.bank_funds, new_from_list(req.discard)),
             new_from_list(req.want_to_collect))

NewPlayerFunds_Saturating(req) ==
    {FundsSubOk([p \in Pieces |->
        LET have == req.player_funds[p] + new_from_list(req.want_to_collect)[p]
            drop == new_from_list(req.discard)[p]
        IN  IF drop > have THEN 0 ELSE have - drop])}

\* (player_funds + player_request_as_funds) - discard_cards_as_funds
NewPlayerFunds(req) ==
    FundsSub(FundsAdd(req.player_funds, new_from_list(req.want_to_collect)),
             new_from_list(req.discard))

CannotStore_TenIsTooMany(funds) == FundsTotal(funds) >= 10

\* if total_amount_of_pieces > 10
CannotStore(funds) == FundsTotal(funds) > 10

\* Funds::collect: the set of values the call can return.
collect(req) ==
    LET total_amount_of_pieces == Len(req.want_to_collect)
        player_request_as_funds == new_from_list(req.want_to_collect)
        pair_errors == PairErrors(player_request_as_funds,
                                  total_amount_of_pieces, req.bank_funds)
    IN  IF ContainsGolden(req.want_to_collect)
        THEN {CollectErr("CollectedGolden", NoPiece)}
        ELSE IF total_amount_of_pieces > 3
        THEN {CollectErr("CannotCollectMoreThanThree", NoPiece)}
        ELSE IF Len(req.discard) > 3
        THEN {CollectErr("CannotDiscardMoreThanThree", NoPiece)}
        ELSE IF pair_errors # {}
        THEN pair_errors
        ELSE UNION {
            IF ~b.ok
            THEN {CollectErr("NotEnoughAtTheBank", b.piece)}
            ELSE UNION {
                IF ~n.ok
                THEN {CollectErr("NotEnoughPiecesToDiscard", NoPiece)}
                ELSE IF CannotStore(n.funds)
                THEN {CollectErr("CannotStoreMoreThan10", NoPiece)}
                ELSE {CollectSuccessNew(b.funds, n.funds)} :
                n \in NewPlayerFunds(req)} :
            b \in NewBankFunds(req)}

----------------------------------------------------------------------------
(* Funds::collect on its own: the request is drawn from bounded sets and   *)
(* the call is applied once.                                               *)

\* Longest collect list and longest discard list of a drawn request.
MaxCollectLen == 4

MaxDiscardLen == 4

SeqsUpTo(S, n) == UNION {[1..k -> S] : k \in 0..n}

\* Colours a drawn collect list is made of, and a drawn discard list.
CollectColours == {Red, Green, Golden}

DiscardColours == {Red, Blue}

\* Bank piles: Red empty, almost empty or large enough for a double take;
\* Green empty or not.
DrawnBanks == {FundsNew(r, g, 0, 0, 0, 1) : r \in {0, 3, 4}, g \in {0, 4}}

\* Players: empty-handed, or holding 9 tokens.
DrawnPlayers == {FundsNew(0, 0, 0, 0, 0, 0), FundsNew(1, 0, 8, 0, 0, 0)}

DrawnRequests ==
    {CollectRequestNew(b, p, c, d) :
        b \in DrawnBanks, p \in DrawnPlayers,
        c \in SeqsUpTo(CollectColours, MaxCollectLen),
        d \in SeqsUpTo(DiscardColours, MaxDiscardLen)}

NoRequest ==
    CollectRequestNew(FundsNew(0, 0, 0, 0, 0, 0), FundsNew(0, 0, 0, 0, 0, 0), <<>>, <<>>)

\* The call Funds::collect(collect_request).
FundsCollect ==
    /\ collect_response = <<>>
    /\ \E r \in collect(collect_request) : collect_response' = <<r>>
    /\ UNCHANGED <<collect_request, board_vars, call_vars, buy_vars, new_vars,
                 funds_vars, server_vars>>

----------------------------------------------------------------------------
(* production_card.rs, noble.rs, player.rs: the values *)

NOBLE_VICTORY_POINTS == 3

WINNING_POINTS_THRESHOLD == 15

\* Option<T>: None is <<>>, Some(x) is <<x>>.
None == <<>>

Some(x) == <<x>>

\* Identifiable<ProductionCard, CardId>
Card(uid, cost, produces, victory_points) ==
    [uid |-> uid, cost |-> cost, produces |-> produces,
     victory_points |-> victory_points]

NobleNew(id, cost) == [id |-> id, cost |-> cost]

PlayerNew(id, funds, production_cards, reserved_cards) ==
    [id |-> id, funds |-> funds, production_cards |-> production_cards,
     reserved_cards |-> reserved_cards, nobles |-> <<>>]

get_funds_from_production_cards_NoCredit(production_cards) ==
    FundsNew(0, 0, 0, 0, 0, 0)

\* Player::get_funds_from_production_cards
get_funds_from_production_cards(production_cards) ==
    [p \in Pieces |->
        Cardinality({i \in DOMAIN production_cards : production_cards[i].produces = p})]

RECURSIVE SumPoints(_)
SumPoints(production_cards) ==
    IF production_cards = <<>> THEN 0
    ELSE LET c == Head(production_cards)
         IN (IF c.victory_points = None THEN 0 ELSE c.victory_points[1])
            + SumPoints(Tail(production_cards))

\* Player::total_victory_points
total_victory_points(player) ==
    SumPoints(player.production_cards) + NOBLE_VICTORY_POINTS * Len(player.nobles)

----------------------------------------------------------------------------
(* production_card.rs: ProductionCard::buy *)

BuyState(funds_remaining, new_missing_funds, is_missing_funds) ==
    [funds_remaining |-> funds_remaining, new_missing_funds |-> new_missing_funds,
     is_missing_funds |-> is_missing_funds]

\* One turn of the loop over prod_card.cost.funds, for `piece`.
BuyStep(st, piece, piece_cost, produces) ==
    LET current_amount == st.funds_remaining[piece]
        goldens == st.funds_remaining[Golden]
        missing == st.new_missing_funds
    IN  IF produces >= piece_cost THEN st
        ELSE IF current_amount + produces >= piece_cost
        THEN BuyState([q \in Pieces |->
                          IF q = piece THEN current_amount - (piece_cost - produces)
                          ELSE st.funds_remaining[q]],
                      st.new_missing_funds, st.is_missing_funds)
        ELSE IF current_amount + produces + goldens >= piece_cost
        THEN BuyState([q \in Pieces |->
                          IF q = Golden
                          THEN goldens - (piece_cost - current_amount - produces)
                          ELSE IF q = piece THEN 0
                          ELSE st.funds_remaining[q]],
                      st.new_missing_funds, st.is_missing_funds)
        ELSE BuyState(st.funds_remaining,
                      [q \in Pieces |->
                          IF q = piece THEN piece_cost - current_amount - produces
                          ELSE missing[q]],
                      TRUE)

\* The loop, over the pieces not yet visited: the traversal of the cost map is
\* in the map's own order, so every order is a possible run.
RECURSIVE BuyLoop(_, _, _, _)
BuyLoop(st, todo, cost, production_funds) ==
    IF todo = {} THEN {st}
    ELSE UNION {BuyLoop(BuyStep(st, p, cost[p], production_funds[p]),
                        todo \ {p}, cost, production_funds) : p \in todo}

\* ProductionCard::buy: the set of values the call can return.
buy(player, prod_card) ==
    {IF st.is_missing_funds
        THEN [ok |-> FALSE, funds |-> st.new_missing_funds]
        ELSE [ok |-> TRUE, funds |-> st.funds_remaining] :
     st \in BuyLoop(BuyState(player.funds, FundsNew(0, 0, 0, 0, 0, 0), FALSE),
                    {p \in Pieces : prod_card.cost[p] > 0},
                    prod_card.cost,
                    get_funds_from_production_cards(player.production_cards))}

----------------------------------------------------------------------------
(* board.rs: the Board value and its helpers *)

Tiers == {"One", "Two", "Three"}

\* The Board seen as one value; the state variables hold its fields.
Board ==
    [players |-> players, player_turn |-> player_turn, bank |-> bank,
     decks |-> decks, cards_for_sale |-> cards_for_sale, nobles |-> nobles,
     action_needed |-> action_needed, round_type |-> round_type,
     winner |-> winner]

\* Vec::pop, n times at most: what is left of the deck.
DeckAfterPops(deck, n) ==
    SubSeq(deck, 1, IF Len(deck) > n THEN Len(deck) - n ELSE 0)

PoppedCards_FromBottom(deck, n) ==
    LET k == IF Len(deck) > n THEN n ELSE Len(deck)
    IN  [i \in 1..k |-> deck[i]]

\* The popped cards in the order they were popped (top of the deck first).
PoppedCards(deck, n) ==
    LET k == IF Len(deck) > n THEN n ELSE Len(deck)
    IN  [i \in 1..k |-> deck[Len(deck) + 1 - i]]

\* Board::new
BoardNew(new_players, new_bank, new_decks, new_nobles) ==
    [players |-> new_players,
     player_turn |-> 0,
     bank |-> new_bank,
     decks |-> [t \in DOMAIN new_decks |-> DeckAfterPops(new_decks[t], 4)],
     cards_for_sale |-> [t \in DOMAIN new_decks |-> PoppedCards(new_decks[t], 4)],
     nobles |-> new_nobles,
     action_needed |-> "Normal",
     round_type |-> "Normal",
     winner |-> None]

\* Rust indexes from 0, TLA+ sequences from 1.
CurrentPlayer(b) == b.players[b.player_turn + 1]

RetainSeq(seq, Keep(_)) ==
    LET F[i \in 0..Len(seq)] ==
            IF i = 0 THEN <<>>
            ELSE IF Keep(seq[i]) THEN Append(F[i - 1], seq[i]) ELSE F[i - 1]
    IN  F[Len(seq)]

\* Board::get_card_from_board: the first card with that uid of the first sale
\* window that holds one, the windows being visited in the map's own order.
get_card_from_board(b, card_id) ==
    {b.cards_for_sale[t][
         CHOOSE i \in DOMAIN b.cards_for_sale[t] :
            /\ b.cards_for_sale[t][i].uid = card_id
            /\ \A j \in 1..(i - 1) : b.cards_for_sale[t][j].uid # card_id] :
     t \in {u \in DOMAIN b.cards_for_sale :
              \E i \in DOMAIN b.cards_for_sale[u] :
                 b.cards_for_sale[u][i].uid = card_id}}

get_who_plays_next_Stays(b) == b.player_turn

\* Board::get_who_plays_next
get_who_plays_next(b) ==
    IF b.player_turn = Len(b.players) - 1 THEN 0 ELSE b.player_turn + 1

is_last_player_turn_AnySeat(b) == TRUE

\* Board::is_last_player_turn
is_last_player_turn(b) == b.player_turn = Len(b.players) - 1

has_some_player_passed_win_threshold_Strict(b) ==
    \E i \in DOMAIN b.players :
        total_victory_points(b.players[i]) > WINNING_POINTS_THRESHOLD

\* Board::has_some_player_passed_win_threshold
has_some_player_passed_win_threshold(b) ==
    \E i \in DOMAIN b.players :
        total_victory_points(b.players[i]) >= WINNING_POINTS_THRESHOLD

can_select_noble_CountsTokens(b) ==
    \E i \in DOMAIN b.nobles :
        \A p \in Pieces : b.players[b.player_turn + 1].funds[p] >= b.nobles[i].cost[p]

can_select_noble_AnyNoble(b) == b.nobles # <<>>

\* Board::can_select_noble
can_select_noble(b) ==
    LET player_produces_as_funds ==
            get_funds_from_production_cards(CurrentPlayer(b).production_cards)
    IN  \E i \in DOMAIN b.nobles :
            \E r \in FundsSub(player_produces_as_funds, b.nobles[i].cost) : r.ok

get_winner_PointsOnly(b) ==
    IF b.players = <<>> THEN None
    ELSE
    LET max_points ==
            CHOOSE m \in {total_victory_points(b.players[i]) : i \in DOMAIN b.players} :
                \A i \in DOMAIN b.players : total_victory_points(b.players[i]) <= m
        possible_winners ==
            RetainSeq(b.players, LAMBDA p : total_victory_points(p) = max_points)
        winners == [i \in DOMAIN possible_winners |-> possible_winners[i].id]
    IN  IF Len(winners) = 1
        THEN Some([kind |-> "Winner", ids |-> winners])
        ELSE Some([kind |-> "Draw", ids |-> winners])

\* Board::get_winner
get_winner(b) ==
    IF b.players = <<>> THEN None
    ELSE
    LET max_points ==
            CHOOSE m \in {total_victory_points(b.players[i]) : i \in DOMAIN b.players} :
                \A i \in DOMAIN b.players : total_victory_points(b.players[i]) <= m
        possible_winners ==
            RetainSeq(b.players, LAMBDA p : total_victory_points(p) = max_points)
        least_amount_of_cards ==
            CHOOSE m \in {Len(possible_winners[i].production_cards) :
                              i \in DOMAIN possible_winners} :
                \A i \in DOMAIN possible_winners :
                    m <= Len(possible_winners[i].production_cards)
        tied ==
            RetainSeq(possible_winners,
                      LAMBDA p : Len(p.production_cards) = least_amount_of_cards)
        winners == [i \in DOMAIN tied |-> tied[i].id]
    IN  IF Len(winners) = 1
        THEN Some([kind |-> "Winner", ids |-> winners])
        ELSE Some([kind |-> "Draw", ids |-> winners])

----------------------------------------------------------------------------
(* board.rs, player.rs: the outcome of one call *)

NoFunds == FundsNew(0, 0, 0, 0, 0, 0)

\* Ok(board)
ActionOk(b) ==
    [ok |-> TRUE, fail |-> "None", detail |-> "None", piece |-> NoPiece,
     missing |-> NoFunds, board |-> b]

\* Err(ActionFail): `fail` names the variant, `detail` the variant of the error
\* it wraps, `piece` and `missing` what that error carries.
ActionErr(b, fail, detail, piece, missing) ==
    [ok |-> FALSE, fail |-> fail, detail |-> detail, piece |-> piece,
     missing |-> missing, board |-> b]

\* A call that does not return: Option::unwrap on None.
ActionPanic(b) == ActionErr(b, "Panic", "None", NoPiece, NoFunds)

\* The Action values.
PassTheTurn == [type |-> "PassTheTurn", collect |-> <<>>, discard |-> <<>>,
                tier |-> "None", id |-> 0]

CollectPieces(collect_pieces, discard_pieces) ==
    [type |-> "CollectPieces", collect |-> collect_pieces,
     discard |-> discard_pieces, tier |-> "None", id |-> 0]

ReserveCardFromDeck(tier) ==
    [type |-> "ReserveCardFromDeck", collect |-> <<>>, discard |-> <<>>,
     tier |-> tier, id |-> 0]

ReserveCardFromBoard(card_id) ==
    [type |-> "ReserveCardFromBoard", collect |-> <<>>, discard |-> <<>>,
     tier |-> "None", id |-> card_id]

BuyCard(card_id) ==
    [type |-> "BuyCard", collect |-> <<>>, discard |-> <<>>,
     tier |-> "None", id |-> card_id]

SelectNoble(noble_id) ==
    [type |-> "SelectNoble", collect |-> <<>>, discard |-> <<>>,
     tier |-> "None", id |-> noble_id]

----------------------------------------------------------------------------
(* board.rs, player.rs: the operations *)

\* The sale windows and decks after a purchase: the loop visits every tier,
\* drops the bought card from its window and pushes one card popped from that
\* tier's deck.
SaleAfterBuy(b, card_id) ==
    [t \in DOMAIN b.cards_for_sale |->
        LET kept == RetainSeq(b.cards_for_sale[t], LAMBDA c : c.uid # card_id)
        IN  IF b.decks[t] # <<>>
            THEN Append(kept, b.decks[t][Len(b.decks[t])])
            ELSE kept]

DecksAfterBuy(b) ==
    [t \in DOMAIN b.decks |->
        IF t \in DOMAIN b.cards_for_sale
        THEN DeckAfterPops(b.decks[t], 1)
        ELSE b.decks[t]]

BankAfterBuy_KeepsBank(b, used_coins) == b.bank

\* The bank after a purchase: new_board_state.bank + used_coins.
BankAfterBuy(b, used_coins) == FundsAdd(b.bank, used_coins)

\* Board::action_buy_production_card
action_buy_production_card(b, card_id) ==
    IF get_card_from_board(b, card_id) = {}
    THEN {ActionErr(b, "InvalidBuyOperation", "CardNotFoundOnBoard", NoPiece, NoFunds)}
    ELSE UNION {UNION {
        IF ~r.ok
        THEN {ActionErr(b, "InvalidBuyOperation", "NotEnoughFunds", NoPiece, r.funds)}
        ELSE {IF ~used_coins.ok
                 THEN ActionPanic(b)
                 ELSE ActionOk(
                     [b EXCEPT
                        !.cards_for_sale = SaleAfterBuy(b, card_id),
                        !.decks = DecksAfterBuy(b),
                        !.players[b.player_turn + 1] =
                            [@ EXCEPT !.funds = r.funds,
                                      !.production_cards = Append(@, card)],
                        !.bank = BankAfterBuy(b, used_coins.funds)]) :
              used_coins \in FundsSub(CurrentPlayer(b).funds, r.funds)} :
        r \in buy(CurrentPlayer(b), card)} :
        card \in get_card_from_board(b, card_id)}

\* Board::action_collect_pieces
action_collect_pieces(b, collect_pieces, discard_pieces) ==
    {IF ~result.ok
        THEN ActionErr(b, "InvalidCollect", result.error, result.piece, NoFunds)
        ELSE ActionOk([b EXCEPT !.bank = result.bank_funds,
                                !.players[b.player_turn + 1].funds = result.player_funds]) :
     result \in collect(CollectRequestNew(b.bank, CurrentPlayer(b).funds,
                                          collect_pieces, discard_pieces))}

action_reserve_card_from_deck_Capped(b, tier) ==
    IF tier \notin DOMAIN b.decks
    THEN {ActionPanic(b)}
    ELSE IF b.decks[tier] = <<>>
    THEN {ActionErr(b, "CannotReserveFromEmptyDeck", "None", NoPiece, NoFunds)}
    ELSE IF Len(CurrentPlayer(b).reserved_cards) >= 3
    THEN {ActionErr(b, "InvalidReserve", "MaximumReservedCardsExceed", NoPiece, NoFunds)}
    ELSE {ActionOk([b EXCEPT
              !.decks[tier] = DeckAfterPops(@, 1),
              !.players[b.player_turn + 1].reserved_cards =
                  Append(@, b.decks[tier][Len(b.decks[tier])])])}

\* Board::action_reserve_card_from_deck
action_reserve_card_from_deck(b, tier) ==
    IF tier \notin DOMAIN b.decks
    THEN {ActionPanic(b)}
    ELSE IF b.decks[tier] = <<>>
    THEN {ActionErr(b, "CannotReserveFromEmptyDeck", "None", NoPiece, NoFunds)}
    ELSE {ActionOk([b EXCEPT
              !.decks[tier] = DeckAfterPops(@, 1),
              !.players[b.player_turn + 1].reserved_cards =
                  Append(@, b.decks[tier][Len(b.decks[tier])])])}

ReserveSuccess_CardOnTop(b, card) ==
    LET player == CurrentPlayer(b)
        player_updated == [player EXCEPT !.reserved_cards = <<card>> \o @]
    IN  IF b.bank[Golden] > 0
        THEN [bank_funds |-> [b.bank EXCEPT ![Golden] = @ - 1],
              player |-> [player_updated EXCEPT !.funds[Golden] = player.funds[Golden] + 1]]
        ELSE [bank_funds |-> b.bank, player |-> player_updated]

ReserveSuccess_BankKeepsGolden(b, card) ==
    LET player == CurrentPlayer(b)
        player_updated == [player EXCEPT !.reserved_cards = Append(@, card)]
    IN  IF b.bank[Golden] > 0
        THEN [bank_funds |-> b.bank,
              player |-> [player_updated EXCEPT !.funds[Golden] = player.funds[Golden] + 1]]
        ELSE [bank_funds |-> b.bank, player |-> player_updated]

\* Player::reserve_card: the player and bank funds after a reservation.
ReserveSuccess(b, card) ==
    LET player == CurrentPlayer(b)
        player_updated == [player EXCEPT !.reserved_cards = Append(@, card)]
    IN  IF b.bank[Golden] > 0
        THEN [bank_funds |-> [b.bank EXCEPT ![Golden] = @ - 1],
              player |-> [player_updated EXCEPT !.funds[Golden] = player.funds[Golden] + 1]]
        ELSE [bank_funds |-> b.bank, player |-> player_updated]

action_reserve_card_CapAfterFour(b, card_id) ==
    IF get_card_from_board(b, card_id) = {}
    THEN {ActionErr(b, "InvalidReserve", "CardNotFound", NoPiece, NoFunds)}
    ELSE IF Len(CurrentPlayer(b).reserved_cards) > 3
    THEN {ActionErr(b, "InvalidReserve", "MaximumReservedCardsExceed", NoPiece, NoFunds)}
    ELSE {ActionOk([b EXCEPT
              !.bank = ReserveSuccess(b, card).bank_funds,
              !.players[b.player_turn + 1] = ReserveSuccess(b, card).player]) :
          card \in get_card_from_board(b, card_id)}

\* Board::action_reserve_card, Board::reserve_card, Player::reserve_card
action_reserve_card(b, card_id) ==
    IF get_card_from_board(b, card_id) = {}
    THEN {ActionErr(b, "InvalidReserve", "CardNotFound", NoPiece, NoFunds)}
    ELSE IF Len(CurrentPlayer(b).reserved_cards) >= 3
    THEN {ActionErr(b, "InvalidReserve", "MaximumReservedCardsExceed", NoPiece, NoFunds)}
    ELSE {ActionOk([b EXCEPT
              !.bank = ReserveSuccess(b, card).bank_funds,
              !.players[b.player_turn + 1] = ReserveSuccess(b, card).player]) :
          card \in get_card_from_board(b, card_id)}

action_select_noble_LeavesPool(b, noble_id) ==
    IF ~\E i \in DOMAIN b.nobles : b.nobles[i].id = noble_id
    THEN {ActionErr(b, "NobleNotFound", "None", NoPiece, NoFunds)}
    ELSE LET noble == b.nobles[CHOOSE i \in DOMAIN b.nobles :
                                  /\ b.nobles[i].id = noble_id
                                  /\ \A j \in 1..(i - 1) : b.nobles[j].id # noble_id]
         IN  {ActionOk([b EXCEPT
                  !.action_needed = "Normal",
                  !.players[b.player_turn + 1].nobles = Append(@, noble)])}

action_select_noble_KeepsPhaseReset(b, noble_id) ==
    IF ~\E i \in DOMAIN b.nobles : b.nobles[i].id = noble_id
    THEN {ActionErr([b EXCEPT !.action_needed = "Normal"],
                    "NobleNotFound", "None", NoPiece, NoFunds)}
    ELSE LET noble == b.nobles[CHOOSE i \in DOMAIN b.nobles :
                                  /\ b.nobles[i].id = noble_id
                                  /\ \A j \in 1..(i - 1) : b.nobles[j].id # noble_id]
         IN  {ActionOk([b EXCEPT
                  !.action_needed = "Normal",
                  !.nobles = RetainSeq(b.nobles, LAMBDA n : n.id # noble_id),
                  !.players[b.player_turn + 1].nobles = Append(@, noble)])}

\* The SelectNoble arm of do_action.
action_select_noble(b, noble_id) ==
    IF ~\E i \in DOMAIN b.nobles : b.nobles[i].id = noble_id
    THEN {ActionErr(b, "NobleNotFound", "None", NoPiece, NoFunds)}
    ELSE LET noble == b.nobles[CHOOSE i \in DOMAIN b.nobles :
                                  /\ b.nobles[i].id = noble_id
                                  /\ \A j \in 1..(i - 1) : b.nobles[j].id # noble_id]
         IN  {ActionOk([b EXCEPT
                  !.action_needed = "Normal",
                  !.nobles = RetainSeq(b.nobles, LAMBDA n : n.id # noble_id),
                  !.players[b.player_turn + 1].nobles = Append(@, noble)])}

PhaseGate_Open(b, action) == "None"

\* The match on board.action_needed that opens do_action: the error it
\* returns, "None" when the action goes through.
PhaseGate(b, action) ==
    IF b.action_needed = "Normal"
    THEN (IF action.type = "SelectNoble" THEN "YouCannotSelectNobleNow" ELSE "None")
    ELSE (IF action.type = "SelectNoble" THEN "None" ELSE "YouNeedToSelectNoble")

ActionArm_PassDraws(b, action) ==
    CASE action.type = "PassTheTurn" ->
            {ActionOk([b EXCEPT !.decks =
                          [t \in DOMAIN b.decks |-> DeckAfterPops(b.decks[t], 1)]])}
      [] action.type = "ReserveCardFromDeck" -> action_reserve_card_from_deck(b, action.tier)
      [] action.type = "CollectPieces" ->
            action_collect_pieces(b, action.collect, action.discard)
      [] action.type = "ReserveCardFromBoard" -> action_reserve_card(b, action.id)
      [] action.type = "BuyCard" -> action_buy_production_card(b, action.id)
      [] OTHER -> action_select_noble(b, action.id)

\* The match on the action: the boards (or failures) of its arm.
ActionArm(b, action) ==
    CASE action.type = "PassTheTurn" -> {ActionOk(b)}
      [] action.type = "ReserveCardFromDeck" -> action_reserve_card_from_deck(b, action.tier)
      [] action.type = "CollectPieces" ->
            action_collect_pieces(b, action.collect, action.discard)
      [] action.type = "ReserveCardFromBoard" -> action_reserve_card(b, action.id)
      [] action.type = "BuyCard" -> action_buy_production_card(b, action.id)
      [] OTHER -> action_select_noble(b, action.id)

AfterAction_AlwaysAdvances(b, new_board_state, has_selected_noble) ==
    LET select == can_select_noble(new_board_state) /\ ~has_selected_noble
        b1 == IF select
              THEN [new_board_state EXCEPT !.action_needed = "SelectNoble"]
              ELSE new_board_state
    IN  [b1 EXCEPT !.player_turn = get_who_plays_next(b1)]

AfterAction_IgnoresSelection(b, new_board_state, has_selected_noble) ==
    LET select == can_select_noble(new_board_state)
        b1 == IF select
              THEN [new_board_state EXCEPT !.action_needed = "SelectNoble"]
              ELSE new_board_state
    IN  IF select THEN b1
        ELSE [b1 EXCEPT !.player_turn = get_who_plays_next(b1)]

\* What do_action does once the action's arm has produced new_board_state.
AfterAction(b, new_board_state, has_selected_noble) ==
    LET select == can_select_noble(new_board_state) /\ ~has_selected_noble
        b1 == IF select
              THEN [new_board_state EXCEPT !.action_needed = "SelectNoble"]
              ELSE new_board_state
        b2 == IF has_some_player_passed_win_threshold(b1)
              THEN [b1 EXCEPT !.round_type = "LastRound"]
              ELSE b1
        b3 == IF ~select /\ is_last_player_turn(b) /\ b2.round_type = "LastRound"
              THEN [b2 EXCEPT !.winner = get_winner(b)]
              ELSE b2
    IN  IF select THEN b3
        ELSE [b3 EXCEPT !.player_turn = get_who_plays_next(b3)]

\* Board::do_action: the set of values the call can return.
do_action(b, action) ==
    IF PhaseGate(b, action) # "None"
    THEN {ActionErr(b, PhaseGate(b, action), "None", NoPiece, NoFunds)}
    ELSE {IF ~r.ok THEN r
          ELSE ActionOk(AfterAction(b, r.board, action.type = "SelectNoble")) :
          r \in ActionArm(b, action)}

----------------------------------------------------------------------------
(* ProductionCard::buy on its own: the buyers and cards it is called with. *)

\* The largest cost of a card in one colour, the largest pile a buyer holds.
MaxCost == 2

MaxStored == 2

\* A card that costs nothing and produces `piece`, as an owned card.
OwnedCard(uid, piece) == Card(uid, FundsNew(0, 0, 0, 0, 0, 0), piece, None)

\* Buyers: up to MaxStored Red, Green and wildcard tokens, and no card, a Red
\* card, two Red cards or a Red and a Green card.
DrawnBuyers ==
    {PlayerNew(1, FundsNew(r, g, 0, 0, 0, w), cards, <<>>) :
        r \in 0..MaxStored, g \in 0..MaxStored, w \in 0..MaxStored,
        cards \in {<<>>, <<OwnedCard(1, Red)>>,
                   <<OwnedCard(1, Red), OwnedCard(2, Red)>>,
                   <<OwnedCard(1, Red), OwnedCard(2, Green)>>}}

\* Cards on offer: a cost in Red, Green and Blue, none in wildcards.
DrawnCards ==
    {Card(9, FundsNew(r, g, b, 0, 0, 0), White, Some(1)) :
        r \in 0..MaxCost, g \in 0..MaxCost, b \in 0..1}

BuyRequestNew(player, prod_card) == [player |-> player, prod_card |-> prod_card]

DrawnBuyRequests == {BuyRequestNew(pl, c) : pl \in DrawnBuyers, c \in DrawnCards}

NoBuyRequest ==
    BuyRequestNew(PlayerNew(0, FundsNew(0, 0, 0, 0, 0, 0), <<>>, <<>>),
                  Card(0, FundsNew(0, 0, 0, 0, 0, 0), Red, None))

\* The call ProductionCard::buy(player, prod_card).
ProductionCardBuy ==
    /\ buy_response = <<>>
    /\ \E r \in buy(buy_request.player, buy_request.prod_card) :
          buy_response' = <<r>>
    /\ UNCHANGED <<buy_request, board_vars, call_vars, collect_vars, new_vars,
                 funds_vars, server_vars>>

----------------------------------------------------------------------------
(* Board::new on its own: the decks it is called with. *)

\* The largest deck handed to Board::new.
MaxDeckLen == 6

\* The card ids of a tier's deck start after this number.
TierBase(tier) ==
    CASE tier = "One" -> 0 [] tier = "Two" -> 10 [] OTHER -> 20

\* A deck of n cards of a tier, the card with the largest id on top.
DeckOf(tier, n) ==
    [i \in 1..n |-> Card(TierBase(tier) + i, FundsNew(1, 1, 0, 0, 0, 0), Red, Some(1))]

\* Decks for any set of tiers, of any sizes up to MaxDeckLen.
DrawnDecks ==
    UNION {{[t \in ts |-> DeckOf(t, size[t])] : size \in [ts -> 0..MaxDeckLen]} :
           ts \in SUBSET Tiers}

BoardRequestNew(new_players, new_bank, new_decks, new_nobles) ==
    [players |-> new_players, bank |-> new_bank, decks |-> new_decks,
     nobles |-> new_nobles]

NoBoardRequest == BoardRequestNew(<<>>, FundsNew(0, 0, 0, 0, 0, 0), <<>>, <<>>)

\* The call Board::new(players, bank, decks, nobles).
BoardNewCall ==
    /\ new_response = <<>>
    /\ new_response' = <<BoardNew(new_request.players, new_request.bank,
                                  new_request.decks, new_request.nobles)>>
    /\ UNCHANGED <<new_request, board_vars, call_vars, collect_vars, buy_vars,
                 funds_vars, server_vars>>

----------------------------------------------------------------------------
(* The game: a board built by Board::new, then any sequence of do_action   *)
(* calls, each on the board the latest successful call returned.           *)

\* The card of board.rs's tests.
TestCard(uid) == Card(uid, FundsNew(1, 1, 0, 0, 0, 0), Red, Some(1))

InitPlayers ==
    <<PlayerNew(1, NoFunds, <<>>, <<>>), PlayerNew(2, NoFunds, <<>>, <<>>)>>

InitBank == FundsNew(4, 2, 0, 0, 0, 1)

\* Tier One as in get_default_board: card 1 on top of the deck.
InitDecks ==
    [t \in {"One"} |->
        <<TestCard(5), TestCard(4), TestCard(3),
          Card(2, FundsNew(2, 0, 0, 0, 0, 0), Green, None), TestCard(1)>>]

\* A second tier, as large as the first.
TwoTierDecks ==
    [t \in {"One", "Two"} |->
        IF t = "One" THEN InitDecks["One"]
        ELSE <<TestCard(15), TestCard(14), TestCard(13), TestCard(12), TestCard(11)>>]

\* The boards a game starts from: one tier, or two.
GameDecks == {InitDecks, TwoTierDecks}

\* A first player who sits down with two reserved cards and the tokens that
\* pay for a card of the tests, the bank holding that much less.
ReservingPlayers ==
    <<PlayerNew(1, FundsNew(1, 1, 0, 0, 0, 0), <<>>, <<TestCard(21), TestCard(22)>>),
      PlayerNew(2, NoFunds, <<>>, <<>>)>>

ReservingBank == FundsNew(3, 1, 0, 0, 0, 1)

\* The nobles of can_select_a_noble_only_after_buying, and a third one that
\* asks for a Blue card.
InitNobles ==
    <<NobleNew(1, FundsNew(1, 0, 0, 0, 0, 0)), NobleNew(2, FundsNew(1, 0, 0, 0, 0, 0)),
      NobleNew(3, FundsNew(0, 0, 1, 0, 0, 0))>>

\* The inputs of the calls: token lists, tiers, card ids and noble ids, 255
\* being an id nothing has.
GameCollectLists == {<<Red, Green>>, <<Red, Red>>, <<Golden>>, <<Blue>>}

GameDiscardLists == {<<>>, <<Red>>}

GameTiers == {"One", "Two"}

GameBuyIds == {1, 2, 255}

GameReserveIds == {1, 255}

GameNobleIds == {1, 2, 3, 255}

\* The caller stops after MaxActions successful calls.
MaxActions == 5

NoAction == [type |-> "None", collect |-> <<>>, discard |-> <<>>,
             tier |-> "None", id |-> 0]

\* What the caller sees of a call's outcome.
Outcome(r) ==
    [ok |-> r.ok, fail |-> r.fail, detail |-> r.detail, piece |-> r.piece,
     missing |-> r.missing]

NoResult ==
    [ok |-> FALSE, fail |-> "NotCalled", detail |-> "None", piece |-> NoPiece,
     missing |-> NoFunds]

InitBoard(b) ==
    /\ players = b.players
    /\ player_turn = b.player_turn
    /\ bank = b.bank
    /\ decks = b.decks
    /\ cards_for_sale = b.cards_for_sale
    /\ nobles = b.nobles
    /\ action_needed = b.action_needed
    /\ round_type = b.round_type
    /\ winner = b.winner

\* The boards Board::new returns for these players, banks and decks.
GameBoards ==
    {BoardNew(InitPlayers, InitBank, d, InitNobles) : d \in GameDecks}
        \cup {BoardNew(ReservingPlayers, ReservingBank, InitDecks, InitNobles)}

Init ==
    /\ \E g \in GameBoards : InitBoard(g)
    /\ last_action = NoAction
    /\ last_result = NoResult
    /\ actions_done = 0
    /\ collect_request = NoRequest
    /\ collect_response = <<>>
    /\ buy_request = NoBuyRequest
    /\ buy_response = <<>>
    /\ new_request = NoBoardRequest
    /\ new_response = <<>>
    /\ funds_request = NoFundsRequest
    /\ funds_response = <<>>
    /\ seats = <<>>
    /\ is_game_running = FALSE
    /\ last_message = NoMessage
    /\ last_reply = "None"
    /\ messages_done = 0

\* The caller hands the current board and `action` to do_action and keeps the
\* board it returns; a failed call leaves the caller with the board it had.
Returns(action) ==
    \E r \in do_action(Board, action) :
        /\ players' = r.board.players
        /\ player_turn' = r.board.player_turn
        /\ bank' = r.board.bank
        /\ decks' = r.board.decks
        /\ cards_for_sale' = r.board.cards_for_sale
        /\ nobles' = r.board.nobles
        /\ action_needed' = r.board.action_needed
        /\ round_type' = r.board.round_type
        /\ winner' = r.board.winner
        /\ last_result' = Outcome(r)
        /\ actions_done' = IF r.ok THEN actions_done + 1 ELSE actions_done

DoPassTheTurn ==
    /\ actions_done < MaxActions
    /\ last_action' = PassTheTurn
    /\ Returns(PassTheTurn)
    /\ UNCHANGED pure_vars

DoCollectPieces ==
    /\ actions_done < MaxActions
    /\ \E c \in GameCollectLists, d \in GameDiscardLists :
          /\ last_action' = CollectPieces(c, d)
          /\ Returns(CollectPieces(c, d))
    /\ UNCHANGED pure_vars

DoReserveCardFromDeck ==
    /\ actions_done < MaxActions
    /\ \E t \in GameTiers :
          /\ last_action' = ReserveCardFromDeck(t)
          /\ Returns(ReserveCardFromDeck(t))
    /\ UNCHANGED pure_vars

DoReserveCardFromBoard ==
    /\ actions_done < MaxActions
    /\ \E id \in GameReserveIds :
          /\ last_action' = ReserveCardFromBoard(id)
          /\ Returns(ReserveCardFromBoard(id))
    /\ UNCHANGED pure_vars

DoBuyCard ==
    /\ actions_done < MaxActions
    /\ \E id \in GameBuyIds :
          /\ last_action' = BuyCard(id)
          /\ Returns(BuyCard(id))
    /\ UNCHANGED pure_vars

DoSelectNoble ==
    /\ actions_done < MaxActions
    /\ \E id \in GameNobleIds :
          /\ last_action' = SelectNoble(id)
          /\ Returns(SelectNoble(id))
    /\ UNCHANGED pure_vars

Next ==
    \/ DoPassTheTurn
    \/ DoCollectPieces
    \/ DoReserveCardFromDeck
    \/ DoReserveCardFromBoard
    \/ DoBuyCard
    \/ DoSelectNoble

Spec == Init /\ [][Next]_vars

----------------------------------------------------------------------------
(* Funds::collect on its own. *)

InitCollect ==
    /\ InitBoard(BoardNew(InitPlayers, InitBank, InitDecks, InitNobles))
    /\ last_action = NoAction
    /\ last_result = NoResult
    /\ actions_done = 0
    /\ collect_request \in DrawnRequests
    /\ collect_response = <<>>
    /\ buy_request = NoBuyRequest
    /\ buy_response = <<>>
    /\ new_request = NoBoardRequest
    /\ new_response = <<>>
    /\ funds_request = NoFundsRequest
    /\ funds_response = <<>>
    /\ seats = <<>>
    /\ is_game_running = FALSE
    /\ last_message = NoMessage
    /\ last_reply = "None"
    /\ messages_done = 0

NextCollect == FundsCollect

SpecCollect == InitCollect /\ [][NextCollect]_vars

----------------------------------------------------------------------------
(* ProductionCard::buy on its own. *)

InitBuy ==
    /\ InitBoard(BoardNew(InitPlayers, InitBank, InitDecks, InitNobles))
    /\ last_action = NoAction
    /\ last_result = NoResult
    /\ actions_done = 0
    /\ collect_request = NoRequest
    /\ collect_response = <<>>
    /\ buy_request \in DrawnBuyRequests
    /\ buy_response = <<>>
    /\ new_request = NoBoardRequest
    /\ new_response = <<>>
    /\ funds_request = NoFundsRequest
    /\ funds_response = <<>>
    /\ seats = <<>>
    /\ is_game_running = FALSE
    /\ last_message = NoMessage
    /\ last_reply = "None"
    /\ messages_done = 0

NextBuy == ProductionCardBuy

SpecBuy == InitBuy /\ [][NextBuy]_vars

----------------------------------------------------------------------------
(* Board::new on its own. *)

InitNew ==
    /\ InitBoard(BoardNew(InitPlayers, InitBank, InitDecks, InitNobles))
    /\ last_action = NoAction
    /\ last_result = NoResult
    /\ actions_done = 0
    /\ collect_request = NoRequest
    /\ collect_response = <<>>
    /\ buy_request = NoBuyRequest
    /\ buy_response = <<>>
    /\ new_request \in {BoardRequestNew(InitPlayers, InitBank, d, InitNobles) :
                           d \in DrawnDecks}
    /\ new_response = <<>>
    /\ funds_request = NoFundsRequest
    /\ funds_response = <<>>
    /\ seats = <<>>
    /\ is_game_running = FALSE
    /\ last_message = NoMessage
    /\ last_reply = "None"
    /\ messages_done = 0

NextNew == BoardNewCall

SpecNew == InitNew /\ [][NextNew]_vars

----------------------------------------------------------------------------
(* The end of a game: boards on which a player is one card away from the   *)
(* winning threshold, played with the same calls.                          *)

\* An owned card worth 14 points that produces White, which no noble asks for.
CardWorth14(uid) == Card(uid, FundsNew(0, 0, 0, 0, 0, 0), White, Some(14))

\* A player who holds the tokens that pay for a card of the tests.
Contender(id, production_cards) ==
    PlayerNew(id, FundsNew(1, 1, 0, 0, 0, 0), production_cards, <<>>)

\* The first seat, the last seat, or both are at 14 points.
EndRosters ==
    {<<Contender(1, <<CardWorth14(100)>>), Contender(2, <<>>)>>,
     <<Contender(1, <<>>), Contender(2, <<CardWorth14(100)>>)>>,
     <<Contender(1, <<CardWorth14(100)>>), Contender(2, <<CardWorth14(101)>>)>>}

EndBank == FundsNew(2, 2, 0, 0, 0, 1)

InitEnd ==
    /\ \E roster \in EndRosters :
          InitBoard(BoardNew(roster, EndBank, InitDecks, InitNobles))
    /\ last_action = NoAction
    /\ last_result = NoResult
    /\ actions_done = 0
    /\ collect_request = NoRequest
    /\ collect_response = <<>>
    /\ buy_request = NoBuyRequest
    /\ buy_response = <<>>
    /\ new_request = NoBoardRequest
    /\ new_response = <<>>
    /\ funds_request = NoFundsRequest
    /\ funds_response = <<>>
    /\ seats = <<>>
    /\ is_game_running = FALSE
    /\ last_message = NoMessage
    /\ last_reply = "None"
    /\ messages_done = 0

SpecEnd == InitEnd /\ [][Next]_vars

----------------------------------------------------------------------------
(* The final action of a game: boards on which the last seat is to play,   *)
(* for the rosters Board::get_winner has to decide between.                *)

\* The most cards a player of a drawn roster owns.
MaxOwned == 2

\* n owned cards worth `points` in all: the first one carries the points.
OwnedWorth(points, n) ==
    [i \in 1..n |-> Card(100 + i, FundsNew(0, 0, 0, 0, 0, 0), White,
                         IF i = 1 THEN Some(points) ELSE None)]

\* A player's cards: none, or 1 to MaxOwned cards worth 14 or 15 points.
DrawnHands ==
    {<<>>} \cup {OwnedWorth(pts, n) : pts \in {14, 15}, n \in 1..MaxOwned}

\* Three players; the last seat holds the tokens that pay for a card.
DrawnRosters ==
    {<<PlayerNew(1, NoFunds, h1, <<>>), PlayerNew(2, NoFunds, h2, <<>>),
       PlayerNew(3, FundsNew(1, 1, 0, 0, 0, 0), h3, <<>>)>> :
        h1 \in DrawnHands, h2 \in DrawnHands, h3 \in DrawnHands}

\* The board when the last seat is about to play: the round is LastRound if
\* a player has passed the threshold, and no noble is left in the pool.
FinalBoard(roster) ==
    LET b == BoardNew(roster, InitBank, InitDecks, <<>>)
    IN  [b EXCEPT !.player_turn = Len(roster) - 1,
                  !.round_type = IF has_some_player_passed_win_threshold(b)
                                 THEN "LastRound" ELSE "Normal"]

\* One more successful call is made.
InitWinner ==
    /\ \E roster \in DrawnRosters : InitBoard(FinalBoard(roster))
    /\ last_action = NoAction
    /\ last_result = NoResult
    /\ actions_done = MaxActions - 1
    /\ collect_request = NoRequest
    /\ collect_response = <<>>
    /\ buy_request = NoBuyRequest
    /\ buy_response = <<>>
    /\ new_request = NoBoardRequest
    /\ new_response = <<>>
    /\ funds_request = NoFundsRequest
    /\ funds_response = <<>>
    /\ seats = <<>>
    /\ is_game_running = FALSE
    /\ last_message = NoMessage
    /\ last_reply = "None"
    /\ messages_done = 0

SpecWinner == InitWinner /\ [][Next]_vars

----------------------------------------------------------------------------
(* The storage cap: a board on which the first player already stores ten   *)
(* tokens, played with the same calls.                                     *)

\* A first player at the cap of Funds::collect, holding the tokens that pay
\* for a card of the tests.
FullPlayers ==
    <<PlayerNew(1, FundsNew(5, 5, 0, 0, 0, 0), <<>>, <<>>),
      PlayerNew(2, NoFunds, <<>>, <<>>)>>

InitCap ==
    /\ InitBoard(BoardNew(FullPlayers, InitBank, InitDecks, InitNobles))
    /\ last_action = NoAction
    /\ last_result = NoResult
    /\ actions_done = 0
    /\ collect_request = NoRequest
    /\ collect_response = <<>>
    /\ buy_request = NoBuyRequest
    /\ buy_response = <<>>
    /\ new_request = NoBoardRequest
    /\ new_response = <<>>
    /\ funds_request = NoFundsRequest
    /\ funds_response = <<>>
    /\ seats = <<>>
    /\ is_game_running = FALSE
    /\ last_message = NoMessage
    /\ last_reply = "None"
    /\ messages_done = 0

SpecCap == InitCap /\ [][Next]_vars

----------------------------------------------------------------------------
(* Funds on their own: +, - and the conversion to a list of pieces, called *)
(* with every triple of small Funds values.                                *)

\* The largest count of one colour in a drawn Funds value.
MaxCount == 2

\* Funds::new with 0..MaxCount Red and Golden, and 0..1 Blue.
DrawnFunds ==
    {FundsNew(r, 0, b, 0, 0, w) : r \in 0..MaxCount, b \in 0..1, w \in 0..MaxCount}

\* `n` times the piece `color`.
Repeated(color, n) == [k \in 1..n |-> color]

\* let all_pieces = vec![Blue, Brown, Golden, Green, Red, White]
all_pieces == <<Blue, Brown, Golden, Green, Red, White>>

IntoVec_SkipsGolden(funds) ==
    LET upto[n \in 0..Len(all_pieces)] ==
            IF n = 0 THEN <<>>
            ELSE upto[n - 1] \o (IF all_pieces[n] = Golden THEN <<>>
                                 ELSE Repeated(all_pieces[n], funds[all_pieces[n]]))
    IN  upto[Len(all_pieces)]

\* impl From<Funds> for Vec<Piece>: for each colour of all_pieces, in that
\* order, as many pushes as the funds hold of it.
IntoVec(funds) ==
    LET upto[n \in 0..Len(all_pieces)] ==
            IF n = 0 THEN <<>>
            ELSE upto[n - 1] \o Repeated(all_pieces[n], funds[all_pieces[n]])
    IN  upto[Len(all_pieces)]

FundsResponse(op, ok, funds, piece, list) ==
    [op |-> op, ok |-> ok, funds |-> funds, piece |-> piece, list |-> list]

\* a + b
FundsAddCall ==
    /\ funds_response = <<>>
    /\ funds_response' = <<FundsResponse("add", TRUE,
                              FundsAdd(funds_request.a, funds_request.b), NoPiece, <<>>)>>
    /\ UNCHANGED <<funds_request, board_vars, call_vars, collect_vars, buy_vars,
                   new_vars, server_vars>>

\* a - b
FundsSubCall ==
    /\ funds_response = <<>>
    /\ \E r \in FundsSub(funds_request.a, funds_request.b) :
          funds_response' = <<FundsResponse("sub", r.ok, r.funds, r.piece, <<>>)>>
    /\ UNCHANGED <<funds_request, board_vars, call_vars, collect_vars, buy_vars,
                   new_vars, server_vars>>

\* Vec::<Piece>::from(a)
FundsIntoVecCall ==
    /\ funds_response = <<>>
    /\ funds_response' = <<FundsResponse("into_vec", TRUE, funds_request.a, NoPiece,
                              IntoVec(funds_request.a))>>
    /\ UNCHANGED <<funds_request, board_vars, call_vars, collect_vars, buy_vars,
                   new_vars, server_vars>>

InitFunds ==
    /\ InitBoard(BoardNew(InitPlayers, InitBank, InitDecks, InitNobles))
    /\ last_action = NoAction
    /\ last_result = NoResult
    /\ actions_done = 0
    /\ collect_request = NoRequest
    /\ collect_response = <<>>
    /\ buy_request = NoBuyRequest
    /\ buy_response = <<>>
    /\ new_request = NoBoardRequest
    /\ new_response = <<>>
    /\ funds_request \in [a : DrawnFunds, b : DrawnFunds, c : DrawnFunds]
    /\ funds_response = <<>>
    /\ seats = <<>>
    /\ is_game_running = FALSE
    /\ last_message = NoMessage
    /\ last_reply = "None"
    /\ messages_done = 0

NextFunds ==
    \/ FundsAddCall
    \/ FundsSubCall
    \/ FundsIntoVecCall

SpecFunds == InitFunds /\ [][NextFunds]_vars

----------------------------------------------------------------------------
(* original_game.rs: the board of the original game. *)

ProductionCardNew(cost, produces, victory_points) ==
    [cost |-> cost, produces |-> produces, victory_points |-> victory_points]

\* original_game.rs: get_tier_one_cards (40 cards)
get_tier_one_cards ==
    <<ProductionCardNew(FundsNew(0, 0, 2, 0, 2, 0), Green, None),
      ProductionCardNew(FundsNew(1, 0, 1, 2, 1, 0), Green, None),
      ProductionCardNew(FundsNew(1, 0, 1, 1, 1, 0), Green, None),
      ProductionCardNew(FundsNew(0, 3, 0, 0, 0, 0), Brown, None),
      ProductionCardNew(FundsNew(0, 0, 4, 0, 0, 0), Brown, Some(1)),
      ProductionCardNew(FundsNew(1, 1, 2, 0, 1, 0), Brown, None),
      ProductionCardNew(FundsNew(1, 3, 1, 0, 0, 0), Blue, None),
      ProductionCardNew(FundsNew(2, 1, 0, 1, 1, 0), Blue, None),
      ProductionCardNew(FundsNew(0, 2, 0, 2, 0, 0), Blue, None),
      ProductionCardNew(FundsNew(0, 0, 2, 2, 0, 0), White, None),
      ProductionCardNew(FundsNew(0, 0, 0, 0, 3, 0), Red, None),
      ProductionCardNew(FundsNew(0, 0, 0, 4, 0, 0), Green, Some(1)),
      ProductionCardNew(FundsNew(0, 1, 3, 0, 1, 0), Green, None),
      ProductionCardNew(FundsNew(2, 0, 1, 2, 0, 0), Green, None),
      ProductionCardNew(FundsNew(1, 0, 0, 3, 1, 0), Red, None),
      ProductionCardNew(FundsNew(0, 0, 0, 0, 4, 0), Red, Some(1)),
      ProductionCardNew(FundsNew(0, 0, 3, 0, 0, 0), White, None),
      ProductionCardNew(FundsNew(2, 2, 0, 0, 0, 0), Brown, None),
      ProductionCardNew(FundsNew(3, 1, 0, 1, 0, 0), Brown, None),
      ProductionCardNew(FundsNew(0, 2, 0, 0, 2, 0), Brown, None),
      ProductionCardNew(FundsNew(1, 1, 0, 1, 1, 0), Blue, None),
      ProductionCardNew(FundsNew(4, 0, 0, 0, 0, 0), Blue, Some(1)),
      ProductionCardNew(FundsNew(0, 1, 0, 2, 2, 0), Red, None),
      ProductionCardNew(FundsNew(2, 0, 0, 0, 2, 0), Red, None),
      ProductionCardNew(FundsNew(0, 1, 2, 0, 0, 0), Red, None),
      ProductionCardNew(FundsNew(1, 0, 2, 0, 2, 0), Brown, None),
      ProductionCardNew(FundsNew(2, 2, 0, 0, 1, 0), Blue, None),
      ProductionCardNew(FundsNew(0, 0, 0, 3, 0, 0), Blue, None),
      ProductionCardNew(FundsNew(0, 0, 2, 1, 2, 0), White, None),
      ProductionCardNew(FundsNew(1, 1, 1, 1, 0, 0), White, None),
      ProductionCardNew(FundsNew(0, 0, 0, 2, 1, 0), Blue, None),
      ProductionCardNew(FundsNew(1, 1, 1, 0, 1, 0), Brown, None),
      ProductionCardNew(FundsNew(2, 0, 2, 0, 0, 0), Green, None),
      ProductionCardNew(FundsNew(3, 0, 0, 0, 0, 0), Green, None),
      ProductionCardNew(FundsNew(1, 2, 1, 1, 0, 0), White, None),
      ProductionCardNew(FundsNew(2, 0, 0, 1, 0, 0), White, None),
      ProductionCardNew(FundsNew(0, 0, 1, 1, 3, 0), White, None),
      ProductionCardNew(FundsNew(0, 4, 0, 0, 0, 0), White, Some(1)),
      ProductionCardNew(FundsNew(0, 1, 1, 1, 2, 0), Red, None),
      ProductionCardNew(FundsNew(0, 1, 1, 1, 1, 0), Red, None)>>

\* original_game.rs: get_tier_two_cards (30 cards)
get_tier_two_cards ==
    <<ProductionCardNew(FundsNew(0, 3, 0, 2, 3, 0), Brown, Some(1)),
      ProductionCardNew(FundsNew(3, 2, 0, 0, 3, 0), Green, Some(1)),
      ProductionCardNew(FundsNew(2, 0, 3, 3, 0, 0), Red, Some(1)),
      ProductionCardNew(FundsNew(0, 0, 6, 0, 0, 0), Blue, Some(3)),
      ProductionCardNew(FundsNew(1, 0, 0, 4, 2, 0), Blue, Some(2)),
      ProductionCardNew(FundsNew(3, 0, 3, 0, 2, 0), White, Some(1)),
      ProductionCardNew(FundsNew(0, 0, 2, 1, 4, 0), Green, Some(2)),
      ProductionCardNew(FundsNew(0, 0, 5, 0, 0, 0), Blue, Some(2)),
      ProductionCardNew(FundsNew(0, 0, 0, 0, 5, 0), Brown, Some(2)),
      ProductionCardNew(FundsNew(2, 0, 0, 3, 2, 0), Red, Some(1)),
      ProductionCardNew(FundsNew(0, 0, 0, 0, 6, 0), White, Some(3)),
      ProductionCardNew(FundsNew(0, 2, 4, 0, 1, 0), Red, Some(2)),
      ProductionCardNew(FundsNew(5, 0, 0, 0, 0, 0), White, Some(2)),
      ProductionCardNew(FundsNew(0, 6, 0, 0, 0, 0), Green, Some(3)),
      ProductionCardNew(FundsNew(0, 5, 0, 0, 0, 0), Green, Some(2)),
      ProductionCardNew(FundsNew(0, 0, 0, 5, 0, 0), Red, Some(2)),
      ProductionCardNew(FundsNew(0, 2, 2, 0, 3, 0), Brown, Some(1)),
      ProductionCardNew(FundsNew(0, 0, 0, 6, 0, 0), Brown, Some(3)),
      ProductionCardNew(FundsNew(3, 5, 0, 0, 0, 0), Brown, Some(2)),
      ProductionCardNew(FundsNew(0, 3, 5, 0, 0, 0), Green, Some(2)),
      ProductionCardNew(FundsNew(0, 3, 2, 3, 0, 0), Blue, Some(1)),
      ProductionCardNew(FundsNew(2, 2, 2, 0, 0, 0), Blue, Some(1)),
      ProductionCardNew(FundsNew(0, 0, 3, 0, 5, 0), Blue, Some(2)),
      ProductionCardNew(FundsNew(0, 0, 3, 2, 2, 0), Green, Some(1)),
      ProductionCardNew(FundsNew(5, 0, 0, 3, 0, 0), White, Some(2)),
      ProductionCardNew(FundsNew(4, 1, 0, 2, 0, 0), White, Some(2)),
      ProductionCardNew(FundsNew(2, 4, 0, 1, 0, 0), Brown, Some(2)),
      ProductionCardNew(FundsNew(2, 3, 0, 2, 0, 0), White, Some(1)),
      ProductionCardNew(FundsNew(6, 0, 0, 0, 0, 0), Red, Some(3)),
      ProductionCardNew(FundsNew(0, 0, 0, 5, 3, 0), Red, Some(2))>>

\* original_game.rs: get_tier_three_cards (20 cards)
get_tier_three_cards ==
    <<ProductionCardNew(FundsNew(3, 0, 3, 3, 5, 0), Green, Some(3)),
      ProductionCardNew(FundsNew(3, 3, 0, 5, 3, 0), Blue, Some(3)),
      ProductionCardNew(FundsNew(0, 3, 6, 0, 3, 0), Green, Some(4)),
      ProductionCardNew(FundsNew(0, 0, 0, 7, 3, 0), White, Some(5)),
      ProductionCardNew(FundsNew(7, 0, 0, 0, 0, 0), Brown, Some(4)),
      ProductionCardNew(FundsNew(6, 3, 0, 3, 0, 0), Brown, Some(4)),
      ProductionCardNew(FundsNew(0, 0, 3, 3, 6, 0), Blue, Some(4)),
      ProductionCardNew(FundsNew(0, 7, 0, 0, 0, 0), Red, Some(4)),
      ProductionCardNew(FundsNew(0, 3, 5, 3, 3, 0), Red, Some(3)),
      ProductionCardNew(FundsNew(3, 6, 3, 0, 0, 0), Red, Some(4)),
      ProductionCardNew(FundsNew(3, 0, 0, 6, 3, 0), White, Some(4)),
      ProductionCardNew(FundsNew(3, 5, 3, 0, 3, 0), Brown, Some(3)),
      ProductionCardNew(FundsNew(0, 0, 3, 0, 7, 0), Blue, Some(5)),
      ProductionCardNew(FundsNew(3, 7, 0, 0, 0, 0), Red, Some(5)),
      ProductionCardNew(FundsNew(0, 3, 7, 0, 0, 0), Green, Some(5)),
      ProductionCardNew(FundsNew(0, 0, 0, 7, 0, 0), White, Some(4)),
      ProductionCardNew(FundsNew(0, 0, 7, 0, 0, 0), Green, Some(4)),
      ProductionCardNew(FundsNew(5, 3, 3, 3, 0, 0), White, Some(3)),
      ProductionCardNew(FundsNew(0, 0, 0, 0, 7, 0), Blue, Some(4)),
      ProductionCardNew(FundsNew(7, 0, 0, 3, 0, 0), Brown, Some(5))>>

get_nobles ==
    <<NobleNew(1, FundsNew(0, 4, 4, 0, 0, 0)),
      NobleNew(2, FundsNew(0, 0, 4, 0, 4, 0)),
      NobleNew(3, FundsNew(4, 4, 0, 0, 0, 0)),
      NobleNew(4, FundsNew(0, 0, 0, 4, 4, 0)),
      NobleNew(5, FundsNew(3, 0, 0, 3, 3, 0)),
      NobleNew(6, FundsNew(3, 3, 0, 3, 0, 0)),
      NobleNew(7, FundsNew(3, 3, 3, 0, 0, 0)),
      NobleNew(8, FundsNew(4, 0, 0, 4, 0, 0)),
      NobleNew(9, FundsNew(0, 3, 3, 0, 3, 0)),
      NobleNew(10, FundsNew(0, 0, 3, 3, 3, 0))>>

\* The .map of get_shuffled_decks: the cards of `list` get the ids that
\* follow `unique_id`, in the order of the list.
Identified(list, unique_id) ==
    [i \in DOMAIN list |->
        Card(unique_id + i, list[i].cost, list[i].produces, list[i].victory_points)]

Reversed(v) == [i \in DOMAIN v |-> v[Len(v) + 1 - i]]

\* shuffle_vec: a random order of v; the model draws the order of v or its
\* reverse.
shuffle_vec(v) == {v, Reversed(v)}

\* get_shuffled_decks: tier One holds the ids 1..40, tier Two 41..70, tier
\* Three 71..90, each tier shuffled on its own.
get_shuffled_decks ==
    LET tier_one == Identified(get_tier_one_cards, 0)
        tier_two == Identified(get_tier_two_cards, Len(get_tier_one_cards))
        tier_three == Identified(get_tier_three_cards,
                                 Len(get_tier_one_cards) + Len(get_tier_two_cards))
    IN  {[t \in Tiers |-> IF t = "One" THEN one ELSE IF t = "Two" THEN two ELSE three] :
            one \in shuffle_vec(tier_one), two \in shuffle_vec(tier_two),
            three \in shuffle_vec(tier_three)}

\* get_random_nobles: `quantity` nobles drawn at random; the model draws the
\* first ones of get_nobles or the last ones, last first.
get_random_nobles(quantity) ==
    {SubSeq(get_nobles, 1, quantity), SubSeq(Reversed(get_nobles), 1, quantity)}

\* get_original_game_board: the boards it can return; the empty set stands
\* for the panic on a number of players outside 2..=4.
get_original_game_board(n_of_players) ==
    IF n_of_players \notin 2..4 THEN {}
    ELSE LET original_players ==
                 [n \in 1..n_of_players |-> PlayerNew(n, NoFunds, <<>>, <<>>)]
             original_bank ==
                 IF n_of_players = 2 THEN FundsNew(4, 4, 4, 4, 4, 5)
                 ELSE IF n_of_players = 3 THEN FundsNew(5, 5, 5, 5, 5, 5)
                 ELSE FundsNew(7, 7, 7, 7, 7, 5)
         IN  {BoardNew(original_players, original_bank, original_decks, original_nobles) :
                 original_decks \in get_shuffled_decks,
                 original_nobles \in get_random_nobles(n_of_players + 1)}

----------------------------------------------------------------------------
(* network_subscribe.rs: subscribe_server_loop.  The loop handles one      *)
(* gossip message at a time, in the order the receiver yields them; any    *)
(* peer can send any message at any time.                                  *)

\* The peers that send messages.
Nodes == {"n1", "n2"}

\* The loop handles at most MaxMessages messages.
MaxMessages == 6

\* The actions the peers send.
ServerActions == {CollectPieces(<<Red, Green, Blue>>, <<>>), SelectNoble(1)}

MessageNew(type, from, action) == [type |-> type, from |-> from, action |-> action]

\* The loop is inside `while let`: no `?` has returned from it, no unwrap has
\* panicked.
LoopRuns == last_reply \notin {"LoopEnded", "Panic"}

\* sender.broadcast(..).await?: the announcement goes out, or the error ends
\* the loop.
Broadcast(announcement) == {announcement, "LoopEnded"}

\* The state a handler leaves alone.
ServerKeeps == UNCHANGED <<board_vars, seats, is_game_running>>

SeatOfCurrentPlayer_OffByOne == (CurrentPlayer(Board).id % Len(seats)) + 1

\* (current_player.id.id() - 1).into(): the index into seats, counted from 1
\* in the model.
SeatOfCurrentPlayer == CurrentPlayer(Board).id

\* Message::Action
RecvAction ==
    /\ LoopRuns
    /\ messages_done < MaxMessages
    /\ messages_done' = messages_done + 1
    /\ \E from \in Nodes, action \in ServerActions :
          /\ last_message' = MessageNew("Action", from, action)
          /\ IF ~is_game_running
             THEN /\ last_reply' \in Broadcast("The game hasn't started yet")
                  /\ ServerKeeps
                  /\ UNCHANGED <<last_action, last_result>>
             ELSE IF SeatOfCurrentPlayer \notin DOMAIN seats
             THEN /\ last_reply' = "Panic"
                  /\ ServerKeeps
                  /\ UNCHANGED <<last_action, last_result>>
             ELSE IF seats[SeatOfCurrentPlayer] # from
             THEN /\ last_reply' \in Broadcast("It is not the players turn yet")
                  /\ ServerKeeps
                  /\ UNCHANGED <<last_action, last_result>>
             ELSE \E r \in do_action(Board, action) :
                    /\ last_action' = action
                    /\ last_result' = Outcome(r)
                    /\ UNCHANGED <<seats, is_game_running>>
                    /\ IF r.ok
                       THEN /\ players' = r.board.players
                            /\ player_turn' = r.board.player_turn
                            /\ bank' = r.board.bank
                            /\ decks' = r.board.decks
                            /\ cards_for_sale' = r.board.cards_for_sale
                            /\ nobles' = r.board.nobles
                            /\ action_needed' = r.board.action_needed
                            /\ round_type' = r.board.round_type
                            /\ winner' = r.board.winner
                            /\ last_reply' = "BoardStateUpdated"
                       ELSE /\ UNCHANGED board_vars
                            /\ IF r.fail = "Panic" THEN last_reply' = "Panic"
                               ELSE last_reply' \in Broadcast("The player made an invalid action")
    /\ UNCHANGED <<actions_done, collect_vars, buy_vars, new_vars, funds_vars>>

RecvJoinTable_NoLimit ==
    /\ LoopRuns
    /\ messages_done < MaxMessages
    /\ messages_done' = messages_done + 1
    /\ \E from \in Nodes :
          /\ last_message' = MessageNew("JoinTable", from, "None")
          /\ seats' = Append(seats, from)
          /\ last_reply' = "None"
          /\ UNCHANGED <<board_vars, is_game_running>>
    /\ UNCHANGED <<call_vars, collect_vars, buy_vars, new_vars, funds_vars>>

\* Message::JoinTable
RecvJoinTable ==
    /\ LoopRuns
    /\ messages_done < MaxMessages
    /\ messages_done' = messages_done + 1
    /\ \E from \in Nodes :
          /\ last_message' = MessageNew("JoinTable", from, "None")
          /\ IF Len(seats) < 4
             THEN /\ seats' = Append(seats, from)
                  /\ last_reply' = "None"
                  /\ UNCHANGED <<board_vars, is_game_running>>
             ELSE /\ last_reply' \in Broadcast("The table is full")
                  /\ ServerKeeps
    /\ UNCHANGED <<call_vars, collect_vars, buy_vars, new_vars, funds_vars>>

\* Message::StartGame
RecvStartGame ==
    /\ LoopRuns
    /\ messages_done < MaxMessages
    /\ messages_done' = messages_done + 1
    /\ \E from \in Nodes :
          /\ last_message' = MessageNew("StartGame", from, "None")
          /\ IF Len(seats) < 2
             THEN /\ last_reply' \in Broadcast("Not enough players")
                  /\ ServerKeeps
             ELSE IF is_game_running
             THEN /\ last_reply' \in Broadcast("Game is already running")
                  /\ ServerKeeps
             ELSE IF get_original_game_board(Len(seats)) = {}
             THEN /\ last_reply' = "Panic"
                  /\ is_game_running' = TRUE
                  /\ UNCHANGED <<board_vars, seats>>
             ELSE /\ is_game_running' = TRUE
                  /\ \E board \in get_original_game_board(Len(seats)) :
                        /\ players' = board.players
                        /\ player_turn' = board.player_turn
                        /\ bank' = board.bank
                        /\ decks' = board.decks
                        /\ cards_for_sale' = board.cards_for_sale
                        /\ nobles' = board.nobles
                        /\ action_needed' = board.action_needed
                        /\ round_type' = board.round_type
                        /\ winner' = board.winner
                  /\ last_reply' \in Broadcast("Starting a new game")
                  /\ UNCHANGED seats
    /\ UNCHANGED <<call_vars, collect_vars, buy_vars, new_vars, funds_vars>>

\* Message::Announcement
RecvAnnouncement ==
    /\ LoopRuns
    /\ messages_done < MaxMessages
    /\ messages_done' = messages_done + 1
    /\ \E from \in Nodes : last_message' = MessageNew("Announcement", from, "None")
    /\ last_reply' = "None"
    /\ ServerKeeps
    /\ UNCHANGED <<call_vars, collect_vars, buy_vars, new_vars, funds_vars>>

\* Message::BoardStateUpdated
RecvBoardStateUpdated ==
    /\ LoopRuns
    /\ messages_done < MaxMessages
    /\ messages_done' = messages_done + 1
    /\ \E from \in Nodes : last_message' = MessageNew("BoardStateUpdated", from, "None")
    /\ last_reply' = "None"
    /\ ServerKeeps
    /\ UNCHANGED <<call_vars, collect_vars, buy_vars, new_vars, funds_vars>>

\* let mut board = get_original_game_board(2), no seat taken, no game running.
InitServer ==
    /\ \E board \in get_original_game_board(2) : InitBoard(board)
    /\ last_action = NoAction
    /\ last_result = NoResult
    /\ actions_done = 0
    /\ collect_request = NoRequest
    /\ collect_response = <<>>
    /\ buy_request = NoBuyRequest
    /\ buy_response = <<>>
    /\ new_request = NoBoardRequest
    /\ new_response = <<>>
    /\ funds_request = NoFundsRequest
    /\ funds_response = <<>>
    /\ seats = <<>>
    /\ is_game_running = FALSE
    /\ last_message = NoMessage
    /\ last_reply = "None"
    /\ messages_done = 0

NextServer ==
    \/ RecvAction
    \/ RecvJoinTable
    \/ RecvStartGame
    \/ RecvAnnouncement
    \/ RecvBoardStateUpdated

SpecServer == InitServer /\ [][NextServer]_vars

----------------------------------------------------------------------------
(* Properties of Funds::collect, checked under SpecCollect. *)

\* The request and, once the call has returned, its response.
Req == collect_request

Returned == collect_response # <<>>

Resp == collect_response[1]

\* How many times piece p occurs in a list of pieces.
Tally(list, p) == Cardinality({i \in DOMAIN list : list[i] = p})

\* The order of the variants of enum Piece.
CanonicalOrder == <<Red, Green, Blue, Brown, White, Golden>>

\* The seven checks of the collect protocol, each stated on the request alone.
Check1_Wildcard(r) == \E i \in DOMAIN r.want_to_collect : r.want_to_collect[i] = Golden

Check2_TooManyCollected(r) == Len(r.want_to_collect) > 3

Check2_TooManyDiscarded(r) == Len(r.discard) > 3

Check3_PairWithAnother(r) ==
    Len(r.want_to_collect) = 3 /\ \E p \in Pieces : Tally(r.want_to_collect, p) >= 2

Check4_PileAlmostEmpty(r) ==
    \E p \in Pieces : Tally(r.want_to_collect, p) >= 2 /\ r.bank_funds[p] < 4

Check5_BankShort(r) ==
    \E p \in Pieces :
        r.bank_funds[p] + Tally(r.discard, p) < Tally(r.want_to_collect, p)

Check6_CannotDiscard(r) ==
    \E p \in Pieces :
        r.player_funds[p] + Tally(r.want_to_collect, p) < Tally(r.discard, p)

TotalAfter(r) ==
    LET after == [p \in Pieces |->
                    r.player_funds[p] + Tally(r.want_to_collect, p) - Tally(r.discard, p)]
    IN  after[Red] + after[Green] + after[Blue] + after[Brown] + after[White]
        + after[Golden]

Check7_TooManyStored(r) == TotalAfter(r) > 10

PassesChecks1To5(r) ==
    /\ ~Check1_Wildcard(r)
    /\ ~Check2_TooManyCollected(r)
    /\ ~Check2_TooManyDiscarded(r)
    /\ ~Check3_PairWithAnother(r)
    /\ ~Check4_PileAlmostEmpty(r)
    /\ ~Check5_BankShort(r)

FirstFailingCheck(r) ==
    IF Check1_Wildcard(r) THEN "CollectedGolden"
    ELSE IF Check2_TooManyCollected(r) THEN "CannotCollectMoreThanThree"
    ELSE IF Check2_TooManyDiscarded(r) THEN "CannotDiscardMoreThanThree"
    ELSE IF Check3_PairWithAnother(r) THEN "Collected2OfTheSameWithAnother"
    ELSE IF Check4_PileAlmostEmpty(r) THEN "CannotCollect2WhenResourceIsAlmostEmpty"
    ELSE IF Check5_BankShort(r) THEN "NotEnoughAtTheBank"
    ELSE IF Check6_CannotDiscard(r) THEN "NotEnoughPiecesToDiscard"
    ELSE IF Check7_TooManyStored(r) THEN "CannotStoreMoreThan10"
    ELSE "None"

\* C3: the collect checks are applied in the order wildcard, more than 3
\* collected, more than 3 discarded, pair with another, pile almost empty, bank
\* short, cannot discard, more than 10 stored; the variant of CollectError
\* returned is that of the first check in this order that fails, and the call
\* succeeds when none fails.
C3_FirstFailingCheckIsReported ==
    Returned =>
        /\ Resp.error = FirstFailingCheck(Req)
        /\ Resp.ok <=> FirstFailingCheck(Req) = "None"

\* C3 witness: a request failing checks 3, 4 and 5 at once came back with the
\* error of check 3.
C3_Witness ==
    /\ Returned
    /\ Check3_PairWithAnother(Req)
    /\ Check4_PileAlmostEmpty(Req)
    /\ Check5_BankShort(Req)
    /\ Resp.error = "Collected2OfTheSameWithAnother"

\* C4: a request whose collect list contains the wildcard fails with
\* CollectedGolden, whatever the bank, the player's funds, the lengths of the
\* lists and the discard list are.
C4_WildcardAlwaysRejected ==
    (Returned /\ Check1_Wildcard(Req)) =>
        (~Resp.ok /\ Resp.error = "CollectedGolden")

\* C4 witness: the wildcard came last in an over-long collect list, beside an
\* over-long discard list, and the call returned CollectedGolden.
C4_Witness ==
    /\ Returned
    /\ Len(Req.want_to_collect) = 4
    /\ Req.want_to_collect[1] # Golden
    /\ Req.want_to_collect[4] = Golden
    /\ Len(Req.discard) = 4
    /\ Resp.error = "CollectedGolden"

\* A request for exactly 3 non-wildcard tokens with a colour taken 2 or 3 times.
ThreeWithRepeat(r) ==
    /\ Len(r.want_to_collect) = 3
    /\ ~Check1_Wildcard(r)
    /\ \E p \in Pieces : Tally(r.want_to_collect, p) >= 2

\* C5 as claimed: every request for exactly 3 non-wildcard tokens in which a
\* colour appears two or three times fails with Collected2OfTheSameWithAnother.
C5_Original ==
    (Returned /\ ThreeWithRepeat(Req)) =>
        Resp.error = "Collected2OfTheSameWithAnother"

\* C5 amended: every request for exactly 3 non-wildcard tokens in which a colour
\* appears two or three times, and that discards at most 3 tokens, fails with
\* Collected2OfTheSameWithAnother, for every position of the repeated colour
\* and every bank content.
C5_PairWithAnotherRejected ==
    (Returned /\ ThreeWithRepeat(Req) /\ Len(Req.discard) <= 3) =>
        (~Resp.ok /\ Resp.error = "Collected2OfTheSameWithAnother")

\* C5 witness: the pair closes the list, its pile at the bank is too low for a
\* double take as well, and the call returned Collected2OfTheSameWithAnother.
C5_Witness ==
    /\ Returned
    /\ Len(Req.want_to_collect) = 3
    /\ Req.want_to_collect[1] # Req.want_to_collect[2]
    /\ Req.want_to_collect[2] = Req.want_to_collect[3]
    /\ Req.bank_funds[Req.want_to_collect[3]] < 4
    /\ Resp.error = "Collected2OfTheSameWithAnother"

\* A request for exactly two tokens, both of the same colour.
DoubleTake(r) ==
    Len(r.want_to_collect) = 2 /\ r.want_to_collect[1] = r.want_to_collect[2]

\* C6 as claimed, for the requests that reach the pile check (no wildcard, at
\* most 3 discards): a request for exactly two tokens of one colour fails with
\* CannotCollect2WhenResourceIsAlmostEmpty when the bank's pile of that colour
\* is below 4, and when the pile is 4 or more and the request succeeds the pile
\* is reduced by exactly 2.
C6_Original ==
    (Returned /\ DoubleTake(Req) /\ Req.want_to_collect[1] # Golden
              /\ Len(Req.discard) <= 3) =>
        LET x == Req.want_to_collect[1]
        IN  /\ Req.bank_funds[x] < 4 =>
                Resp.error = "CannotCollect2WhenResourceIsAlmostEmpty"
            /\ (Req.bank_funds[x] >= 4 /\ Resp.ok) =>
                Resp.bank_funds[x] = Req.bank_funds[x] - 2

\* C6 amended: a request for exactly two tokens of one non-wildcard colour that
\* discards at most 3 tokens fails with CannotCollect2WhenResourceIsAlmostEmpty
\* when the bank's pile of that colour before the transaction (tokens discarded
\* in the same request not counted) is below 4; when the pile is 4 or more it
\* does not fail with that error, and when it succeeds the pile becomes the old
\* pile minus 2 plus the tokens of that colour discarded in the request.
C6_DoubleTakeNeedsPileOfFour ==
    (Returned /\ DoubleTake(Req) /\ Req.want_to_collect[1] # Golden
              /\ Len(Req.discard) <= 3) =>
        LET x == Req.want_to_collect[1]
        IN  /\ Req.bank_funds[x] < 4 =>
                (~Resp.ok /\ Resp.error = "CannotCollect2WhenResourceIsAlmostEmpty")
            /\ Req.bank_funds[x] >= 4 =>
                /\ Resp.error # "CannotCollect2WhenResourceIsAlmostEmpty"
                /\ Resp.ok =>
                    Resp.bank_funds[x] = Req.bank_funds[x] - 2 + Tally(Req.discard, x)

\* C6 witness: a double take from a pile of 3 was rejected although the same
\* request discards a token of that colour.
C6_Witness ==
    /\ Returned
    /\ DoubleTake(Req)
    /\ Req.bank_funds[Req.want_to_collect[1]] = 3
    /\ Tally(Req.discard, Req.want_to_collect[1]) >= 1
    /\ Len(Req.discard) <= 3
    /\ Resp.error = "CannotCollect2WhenResourceIsAlmostEmpty"

\* C7: a request that passes checks 1 to 6 fails with CannotStoreMoreThan10
\* exactly when the player's total over the six colours, after adding the
\* collected and removing the discarded tokens, exceeds 10; a total of exactly
\* 10 is accepted.
C7_StorageCap ==
    (Returned /\ PassesChecks1To5(Req) /\ ~Check6_CannotDiscard(Req)) =>
        /\ Resp.error = "CannotStoreMoreThan10" <=> TotalAfter(Req) > 10
        /\ TotalAfter(Req) <= 10 => Resp.ok

\* C7 witness: a collect that leaves the player with exactly 10 tokens succeeded.
C7_Witness ==
    /\ Returned
    /\ Req.want_to_collect # <<>>
    /\ TotalAfter(Req) = 10
    /\ Resp.ok

\* C8 as claimed: a request that passes checks 1 to 5 and discards more tokens
\* of some colour than the player held before the request is rejected with
\* NotEnoughPiecesToDiscard.
C8_Original ==
    (Returned /\ PassesChecks1To5(Req)
              /\ \E p \in Pieces : Tally(Req.discard, p) > Req.player_funds[p]) =>
        Resp.error = "NotEnoughPiecesToDiscard"

\* C8 amended: a request that passes checks 1 to 5 and discards more tokens of
\* some colour than the player held before the request plus the tokens of that
\* colour the request collects is rejected with NotEnoughPiecesToDiscard.
C8_CannotDiscardWhatIsNotHeld ==
    (Returned /\ PassesChecks1To5(Req)
              /\ \E p \in Pieces :
                    Tally(Req.discard, p)
                        > Req.player_funds[p] + Tally(Req.want_to_collect, p)) =>
        (~Resp.ok /\ Resp.error = "NotEnoughPiecesToDiscard")

\* C8 witness: a player holding no Blue token discarded one and was refused.
C8_Witness ==
    /\ Returned
    /\ PassesChecks1To5(Req)
    /\ Req.player_funds[Blue] = 0
    /\ Tally(Req.discard, Blue) >= 1
    /\ Resp.error = "NotEnoughPiecesToDiscard"

\* The first colour, in the order of enum Piece, the bank is short of.
FirstShortAtBank(r) ==
    CanonicalOrder[
        CHOOSE i \in DOMAIN CanonicalOrder :
            /\ r.bank_funds[CanonicalOrder[i]] + Tally(r.discard, CanonicalOrder[i])
                   < Tally(r.want_to_collect, CanonicalOrder[i])
            /\ \A j \in 1..(i - 1) :
                   r.bank_funds[CanonicalOrder[j]] + Tally(r.discard, CanonicalOrder[j])
                       >= Tally(r.want_to_collect, CanonicalOrder[j])]

\* C9: the token named by NotEnoughAtTheBank is always the first short colour
\* in the order Red, Green, Blue, Brown, White, Golden, so that one request on
\* one bank always reports the same token.
C9_FirstShortTokenIsNamed ==
    (Returned /\ Resp.error = "NotEnoughAtTheBank") =>
        Resp.piece = FirstShortAtBank(Req)

----------------------------------------------------------------------------
(* Properties of the game, checked under Spec. *)

\* The tokens of colour p held by all the players of a roster.
RECURSIVE HeldByPlayers(_, _)
HeldByPlayers(roster, p) ==
    IF roster = <<>> THEN 0
    ELSE Head(roster).funds[p] + HeldByPlayers(Tail(roster), p)

\* The latest call was of this type and returned a board.
Succeeded(type) == last_action.type = type /\ last_result.ok

\* C1, in every reachable state: for each of the six colours the bank's count
\* plus the players' counts is what it was on the initial board.
TokensConserved ==
    \A p \in Pieces :
        bank[p] + HeldByPlayers(players, p)
            = InitBank[p] + HeldByPlayers(InitPlayers, p)

\* C1, for a reservation: the only token that moves is at most one wildcard,
\* from the bank to the player whose turn it was.
ReservationMovesOneWildcard ==
    (last_action'.type \in {"ReserveCardFromBoard", "ReserveCardFromDeck"}
        /\ last_result'.ok) =>
        /\ \A p \in Pieces \ {Golden} :
              /\ bank'[p] = bank[p]
              /\ \A i \in DOMAIN players : players'[i].funds[p] = players[i].funds[p]
        /\ bank[Golden] - bank'[Golden] \in {0, 1}
        /\ \A i \in DOMAIN players :
              players'[i].funds[Golden] - players[i].funds[Golden]
                  = IF i = player_turn + 1 THEN bank[Golden] - bank'[Golden] ELSE 0

\* C1, for a purchase: tokens only move from the buyer to the bank.
PurchaseMovesTokensToBank ==
    (last_action'.type = "BuyCard" /\ last_result'.ok) =>
        \A p \in Pieces :
            /\ bank'[p] >= bank[p]
            /\ \A i \in DOMAIN players :
                  /\ players'[i].funds[p] <= players[i].funds[p]
                  /\ i # player_turn + 1 => players'[i].funds[p] = players[i].funds[p]

\* C1: in every state reachable from the initial board by do_action calls, for
\* each of the six colours (wildcard included) the bank's count plus the sum of
\* the players' counts equals its value on the initial board; a reservation
\* only moves a wildcard from the bank to the player, a purchase only moves
\* tokens from the player to the bank.
C1_TokensConserved ==
    /\ []TokensConserved
    /\ [][ReservationMovesOneWildcard /\ PurchaseMovesTokensToBank]_vars

\* C1 witness: a card was bought after a reservation had taken the bank's
\* wildcard, and the purchase brought the wildcard back to the bank.
C1_Witness ==
    /\ Succeeded("BuyCard")
    /\ \E i \in DOMAIN players :
          \E j \in DOMAIN players[i].reserved_cards :
              players[i].reserved_cards[j].uid = 1
    /\ bank[Golden] = InitBank[Golden]
    /\ bank = InitBank

\* C2: an accepted collect gives, per colour, new bank = bank + discarded -
\* collected and new player = player + collected - discarded, so that bank +
\* player is unchanged; on the board only the bank and the funds of the player
\* whose turn it was are replaced, by these values.
C2_CollectExchangesTokens ==
    [][(last_action'.type = "CollectPieces" /\ last_result'.ok) =>
         LET c == last_action'.collect
             d == last_action'.discard
             me == player_turn + 1
         IN  /\ \A p \in Pieces :
                   /\ bank'[p] = bank[p] + Tally(d, p) - Tally(c, p)
                   /\ players'[me].funds[p]
                         = players[me].funds[p] + Tally(c, p) - Tally(d, p)
                   /\ bank'[p] + players'[me].funds[p]
                         = bank[p] + players[me].funds[p]
             /\ players' = [players EXCEPT ![me].funds = players'[me].funds]
             /\ decks' = decks
             /\ cards_for_sale' = cards_for_sale
             /\ nobles' = nobles]_vars

\* C2 witness: a collect that also discards was accepted.
C2_Witness ==
    /\ Succeeded("CollectPieces")
    /\ last_action.collect # <<>>
    /\ last_action.discard # <<>>

\* C10: the phase is checked before anything else in do_action.  In phase
\* Normal every SelectNoble, whatever its noble id, is rejected with
\* YouCannotSelectNobleNow; in phase AwaitingNobleSelection every action other
\* than SelectNoble, even one that would fail for another reason, is rejected
\* with YouNeedToSelectNoble; the board is left as it was.
C10_PhaseGateComesFirst ==
    [][/\ (action_needed = "Normal" /\ last_action'.type = "SelectNoble") =>
            (last_result'.fail = "YouCannotSelectNobleNow" /\ UNCHANGED board_vars)
       /\ (action_needed = "SelectNoble"
             /\ last_action'.type \notin {"SelectNoble", "None"}) =>
            (last_result'.fail = "YouNeedToSelectNoble" /\ UNCHANGED board_vars)]_vars

\* C10 witness: while a noble had to be selected, a purchase of a card that is
\* not on the board was rejected with YouNeedToSelectNoble.
C10_Witness ==
    /\ action_needed = "SelectNoble"
    /\ last_action = BuyCard(255)
    /\ last_result.fail = "YouNeedToSelectNoble"

----------------------------------------------------------------------------
(* Properties of the turn and noble protocol, checked under Spec. *)

\* How many of the cards a player owns produce colour p.
OwnedOf(player, p) ==
    Cardinality({i \in DOMAIN player.production_cards :
                    player.production_cards[i].produces = p})

\* The player's owned cards alone pay for the noble.
Covers(player, noble) == \A p \in Pieces : OwnedOf(player, p) >= noble.cost[p]

\* The seat after seat t at a table of n.
NextSeat(t, n) == (t + 1) % n

\* C11: after every successful action other than SelectNoble, if the cards
\* owned by the player who acted (stored tokens ignored) cover the cost of at
\* least one noble of the pool, the phase becomes AwaitingNobleSelection and
\* player_turn is unchanged; otherwise the phase stays Normal and player_turn
\* becomes (player_turn + 1) mod N.
C11_NoblePromptOrAdvance ==
    [][(last_result'.ok /\ last_action'.type # "SelectNoble") =>
         LET me == player_turn + 1
         IN  IF \E i \in DOMAIN nobles' : Covers(players'[me], nobles'[i])
             THEN action_needed' = "SelectNoble" /\ player_turn' = player_turn
             ELSE /\ action_needed = "Normal"
                  /\ action_needed' = "Normal"
                  /\ player_turn' = NextSeat(player_turn, Len(players))]_vars

\* C11 witness: a purchase gave the buyer a card that covers a noble, and the
\* turn is held for the selection.
C11_Witness ==
    /\ Succeeded("BuyCard")
    /\ action_needed = "SelectNoble"
    /\ \E i \in DOMAIN nobles : Covers(players[player_turn + 1], nobles[i])

\* A sequence without its i-th element.
WithoutIndex(seq, i) ==
    [k \in 1..(Len(seq) - 1) |-> IF k < i THEN seq[k] ELSE seq[k + 1]]

\* C12: a successful SelectNoble(id), which only happens in phase
\* AwaitingNobleSelection, removes that noble from the pool, appends it to the
\* current player's nobles, sets the phase to Normal and advances player_turn
\* by one cyclically, even when the player's cards still cover another noble
\* of the pool: at most one noble is acquired per turn.
C12_SelectNobleTakesOne ==
    [][(last_action'.type = "SelectNoble" /\ last_result'.ok) =>
         LET me == player_turn + 1
         IN  /\ action_needed = "SelectNoble"
             /\ \E i \in DOMAIN nobles :
                   /\ nobles[i].id = last_action'.id
                   /\ nobles' = WithoutIndex(nobles, i)
                   /\ players'[me].nobles = Append(players[me].nobles, nobles[i])
             /\ Len(players'[me].nobles) = Len(players[me].nobles) + 1
             /\ action_needed' = "Normal"
             /\ player_turn' = NextSeat(player_turn, Len(players))]_vars

\* C12 witness: a noble was selected and the turn moved on although the cards
\* of the player who selected it cover another noble of the pool.
C12_Witness ==
    /\ Succeeded("SelectNoble")
    /\ action_needed = "Normal"
    /\ \E i \in DOMAIN players :
          /\ NextSeat(i - 1, Len(players)) = player_turn
          /\ Len(players[i].nobles) = 1
          /\ \E j \in DOMAIN nobles : Covers(players[i], nobles[j])

\* C13: a noble is claimed only by a player whose production covers its cost:
\* in every reachable state, for every noble held by a player, that player's
\* count of owned cards of each colour is at least the noble's cost in that
\* colour.
C13_HeldNoblesAreCovered ==
    \A i \in DOMAIN players :
        \A j \in DOMAIN players[i].nobles : Covers(players[i], players[i].nobles[j])

\* The boards that n consecutive PassTheTurn calls can lead to from board b,
\* each call on the board the one before returned; ok tells whether all of
\* them were accepted and each moved the turn to the next seat.
RECURSIVE AfterPasses(_, _)
AfterPasses(b, n) ==
    IF n = 0 THEN {[ok |-> TRUE, board |-> b]}
    ELSE UNION {IF r.ok /\ r.board.player_turn = NextSeat(b.player_turn, Len(b.players))
                   THEN AfterPasses(r.board, n - 1)
                   ELSE {[ok |-> FALSE, board |-> r.board]} :
                r \in do_action(b, PassTheTurn)}

\* N passes from the current board are all accepted, each moves the turn by
\* one seat, and the turn is back where it started.
PassesCycle ==
    \A r \in AfterPasses(Board, Len(players)) :
        r.ok /\ r.board.player_turn = player_turn

\* No player's cards cover a noble of the pool.
NobodyCoversANoble ==
    \A i \in DOMAIN players : \A j \in DOMAIN nobles : ~Covers(players[i], nobles[j])

\* C14 as stated: from any reachable board with N players in phase Normal, N
\* consecutive PassTurn actions are all accepted and leave player_turn equal
\* to its starting value, each single PassTurn moving it to
\* (player_turn + 1) mod N.
C14_Original == action_needed = "Normal" => PassesCycle

\* A pass made in the game by a player whose cards cover no noble of the pool
\* is accepted and moves the turn to the next seat.
PassMovesToNextSeat ==
    (/\ last_action' = PassTheTurn
     /\ action_needed = "Normal"
     /\ \A j \in DOMAIN nobles : ~Covers(players[player_turn + 1], nobles[j])) =>
        /\ last_result'.ok
        /\ player_turn' = NextSeat(player_turn, Len(players))
        /\ action_needed' = "Normal"

\* C14, amended: from any reachable board with N players in phase Normal on
\* which no player's owned cards cover a noble of the pool, N consecutive
\* PassTurn actions are all accepted and leave player_turn equal to its
\* starting value, each single PassTurn moving it to (player_turn + 1) mod N.
C14_TurnCyclesWhenNoNobleIsCovered ==
    /\ []((action_needed = "Normal" /\ NobodyCoversANoble) => PassesCycle)
    /\ [][PassMovesToNextSeat]_vars

\* C14 witness: both players of the initial board have passed and the turn is
\* back at the first seat.
C14_Witness ==
    /\ Succeeded("PassTheTurn")
    /\ actions_done = Len(players)
    /\ players = InitPlayers
    /\ bank = InitBank
    /\ player_turn = 0
    /\ NobodyCoversANoble

\* C15: a successful PassTurn changes no resource: the bank, every player's
\* funds, production cards, reserved cards and nobles, all decks, all sale
\* windows and the noble pool are identical before and after it.
C15_PassChangesNoResource ==
    [][(last_action'.type = "PassTheTurn" /\ last_result'.ok) =>
         /\ bank' = bank
         /\ Len(players') = Len(players)
         /\ \A i \in DOMAIN players :
               /\ players'[i].funds = players[i].funds
               /\ players'[i].production_cards = players[i].production_cards
               /\ players'[i].reserved_cards = players[i].reserved_cards
               /\ players'[i].nobles = players[i].nobles
         /\ decks' = decks
         /\ cards_for_sale' = cards_for_sale
         /\ nobles' = nobles]_vars

\* C15 witness: a player who holds tokens and a reserved card has passed.
C15_Witness ==
    /\ Succeeded("PassTheTurn")
    /\ \E i \in DOMAIN players :
          /\ NextSeat(i - 1, Len(players)) = player_turn
          /\ players[i].reserved_cards # <<>>
          /\ \E p \in Pieces : players[i].funds[p] > 0

----------------------------------------------------------------------------
(* Properties of Board::new, checked under SpecNew. *)

Min(a, b) == IF a < b THEN a ELSE b

\* The cards of a sequence, as a set.
CardsOf(seq) == {seq[i] : i \in DOMAIN seq}

\* C16: for every tier of the supplied decks, Board::new puts exactly
\* min(4, deck_size) cards in the sale window, taken from the top (the end) of
\* the deck, leaves the other deck_size - min(4, deck_size) cards in the deck,
\* and starts with player_turn = 0, phase Normal, round Normal and no winner.
C16_NewBoardFillsWindows ==
    new_response # <<>> =>
        LET b == new_response[1]
            supplied == new_request.decks
        IN  /\ DOMAIN b.cards_for_sale = DOMAIN supplied
            /\ DOMAIN b.decks = DOMAIN supplied
            /\ \A t \in DOMAIN supplied :
                  LET n == Len(supplied[t])
                      k == Min(4, n)
                  IN  /\ Len(b.cards_for_sale[t]) = k
                      /\ CardsOf(b.cards_for_sale[t])
                            = {supplied[t][i] : i \in (n - k + 1)..n}
                      /\ Len(b.decks[t]) = n - k
                      /\ b.decks[t] = SubSeq(supplied[t], 1, n - k)
            /\ b.player_turn = 0
            /\ b.action_needed = "Normal"
            /\ b.round_type = "Normal"
            /\ b.winner = None

\* C16 witness: a board was built from a deck of more than 4 cards and a deck
\* of fewer than 4.
C16_Witness ==
    /\ new_response # <<>>
    /\ \E t \in DOMAIN new_request.decks :
          /\ Len(new_request.decks[t]) > 4
          /\ Len(new_response[1].cards_for_sale[t]) = 4
          /\ new_response[1].decks[t] # <<>>
    /\ \E t \in DOMAIN new_request.decks :
          /\ Len(new_request.decks[t]) \in 1..3
          /\ new_response[1].decks[t] = <<>>

----------------------------------------------------------------------------
(* Properties of a purchase, checked under Spec and SpecBuy. *)

Max(a, b) == IF a > b THEN a ELSE b

\* The five colours, the wildcard left out.
Colours == Pieces \ {Golden}

\* What is left of the card's cost in colour p once the buyer's cards of that
\* colour are credited.
AfterCredit(player, card, p) == Max(0, card.cost[p] - OwnedOf(player, p))

\* The stored tokens of colour p the purchase takes.
PaidInColour(player, card, p) == Min(player.funds[p], AfterCredit(player, card, p))

\* What wildcards have to pay in colour p.
Shortfall(player, card, p) ==
    Max(0, card.cost[p] - OwnedOf(player, p) - player.funds[p])

TotalShortfall(player, card) ==
    SumOver([p \in Pieces |-> IF p = Golden THEN 0 ELSE Shortfall(player, card, p)],
            Pieces)

\* The buyer's funds after paying: production credit first, stored tokens of
\* the colour next, wildcards last.
FundsAfterPayment(player, card) ==
    [p \in Pieces |->
        IF p = Golden THEN player.funds[Golden] - TotalShortfall(player, card)
        ELSE player.funds[p] - PaidInColour(player, card, p)]

\* C17: a successful BuyCard appends the bought card to the current player's
\* production cards, replaces that player's funds by the funds left after
\* payment, and adds to the bank, per colour and wildcards included, exactly
\* the tokens the player lost; no other player's funds change.
C17_PurchasePaysTheBank ==
    [][(last_action'.type = "BuyCard" /\ last_result'.ok) =>
         LET me == player_turn + 1
         IN  /\ \E t \in DOMAIN cards_for_sale :
                   \E i \in DOMAIN cards_for_sale[t] :
                      LET card == cards_for_sale[t][i]
                      IN  /\ card.uid = last_action'.id
                          /\ players'[me].production_cards
                                = Append(players[me].production_cards, card)
                          /\ players'[me].funds = FundsAfterPayment(players[me], card)
             /\ \A p \in Pieces :
                   bank'[p] - bank[p] = players[me].funds[p] - players'[me].funds[p]
             /\ \A i \in DOMAIN players :
                   i # me => players'[i].funds = players[i].funds]_vars

\* C17 witness: a card costing a Red and a Green was bought by a player who
\* never held a Green token: a wildcard paid for it and is back at the bank.
C17_Witness ==
    /\ Succeeded("BuyCard")
    /\ bank[Golden] = InitBank[Golden]
    /\ bank[Green] = InitBank[Green]
    /\ \E i \in DOMAIN players :
          /\ NextSeat(i - 1, Len(players)) = player_turn \/ action_needed = "SelectNoble"
          /\ Len(players[i].production_cards) = 1
          /\ players[i].production_cards[1].cost[Green] = 1
          /\ players[i].funds[Golden] = 0
          /\ players[i].funds[Red] = 1

\* The tiers whose sale window holds a card with this id.
TiersSelling(windows, card_id) ==
    {t \in DOMAIN windows : \E i \in DOMAIN windows[t] : windows[t][i].uid = card_id}

\* C18: a successful BuyCard of a card in tier T's sale window removes that
\* card from T's window and moves exactly one card, the top of T's deck, into
\* T's window when T's deck is non-empty (T's window shrinks by one
\* otherwise); the deck and the sale window of every other tier are unchanged,
\* and the bought card can no longer be bought.
C18_PurchaseRefillsItsTierOnly ==
    [][(last_action'.type = "BuyCard" /\ last_result'.ok) =>
         \E T \in TiersSelling(cards_for_sale, last_action'.id) :
            /\ LET kept == RetainSeq(cards_for_sale[T],
                                     LAMBDA c : c.uid # last_action'.id)
               IN  IF decks[T] # <<>>
                   THEN /\ cards_for_sale'[T] = Append(kept, decks[T][Len(decks[T])])
                        /\ decks'[T] = SubSeq(decks[T], 1, Len(decks[T]) - 1)
                   ELSE /\ cards_for_sale'[T] = kept
                        /\ decks'[T] = decks[T]
            /\ Len(cards_for_sale'[T])
                  = Len(cards_for_sale[T]) - (IF decks[T] # <<>> THEN 0 ELSE 1)
            /\ \A t \in DOMAIN cards_for_sale :
                  t # T => (cards_for_sale'[t] = cards_for_sale[t] /\ decks'[t] = decks[t])
            /\ TiersSelling(cards_for_sale', last_action'.id) = {}]_vars

\* C19: in every reachable state of a board with one, two or three tiers, each
\* tier's sale window holds at most 4 cards, and exactly 4 whenever that
\* tier's deck is non-empty.
C19_WindowsHoldFour ==
    \A t \in DOMAIN cards_for_sale :
        /\ Len(cards_for_sale[t]) <= 4
        /\ decks[t] # <<>> => Len(cards_for_sale[t]) = 4

\* The call ProductionCard::buy has returned this value.
Bought == buy_response[1]

\* C20: ProductionCard::buy applies production credit first, stored tokens of
\* the colour next and wildcards last.  It succeeds if and only if the sum
\* over the five colours of max(0, cost - production count - stored tokens) is
\* at most the buyer's wildcard count; on success each colour's stored count
\* decreases by min(stored, max(0, cost - production count)) and the wildcard
\* count by exactly that summed shortfall, whatever the order in which the
\* colours are processed.
C20_PurchaseAlgorithm ==
    buy_response # <<>> =>
        LET player == buy_request.player
            card == buy_request.prod_card
        IN  /\ Bought.ok <=> TotalShortfall(player, card) <= player.funds[Golden]
            /\ Bought.ok =>
                  /\ \A p \in Colours :
                        player.funds[p] - Bought.funds[p]
                            = Min(player.funds[p],
                                  Max(0, card.cost[p] - OwnedOf(player, p)))
                  /\ player.funds[Golden] - Bought.funds[Golden]
                        = TotalShortfall(player, card)
                  /\ \A r \in buy(player, card) : r = Bought

\* C20 witness: a purchase that used the credit of a card, stored tokens of
\* the same colour, and wildcards for two other colours.
C20_Witness ==
    /\ buy_response # <<>>
    /\ Bought.ok
    /\ \E p \in Colours :
          /\ OwnedOf(buy_request.player, p) > 0
          /\ PaidInColour(buy_request.player, buy_request.prod_card, p) > 0
    /\ Cardinality({p \in Colours :
                       Shortfall(buy_request.player, buy_request.prod_card, p) > 0}) = 2

\* The shortfall map of a failed purchase when the colours are evaluated in
\* canonical order: `wild` wildcards are left for the colours of `order`, and
\* `listed` holds the deficits recorded so far.
RECURSIVE CanonicalShortfall(_, _, _, _, _)
CanonicalShortfall(player, card, order, wild, listed) ==
    IF order = <<>> THEN listed
    ELSE LET p == Head(order)
             short == Shortfall(player, card, p)
         IN  IF short <= wild
             THEN CanonicalShortfall(player, card, Tail(order), wild - short, listed)
             ELSE CanonicalShortfall(player, card, Tail(order), wild,
                      [q \in Pieces |->
                          IF q = p
                          THEN card.cost[p] - OwnedOf(player, p) - player.funds[p]
                          ELSE listed[q]])

\* C21: when ProductionCard::buy fails it reports the complete shortfall map,
\* and that map is a function of the buyer and the card alone: evaluating the
\* colours in canonical order (Red, Green, Blue, Brown, White), a colour is
\* listed with deficit cost - production count - stored tokens exactly when
\* the wildcards left after the earlier colours cannot cover that colour's
\* shortfall, and every other colour is listed with 0.
C21_ShortfallMapIsCanonical ==
    (buy_response # <<>> /\ ~Bought.ok) =>
        Bought.funds
            = CanonicalShortfall(buy_request.player, buy_request.prod_card,
                                 <<Red, Green, Blue, Brown, White>>,
                                 buy_request.player.funds[Golden],
                                 [q \in Pieces |-> 0])

----------------------------------------------------------------------------
(* Properties of the reservations, checked under Spec. *)

\* C22: ReserveCardFromBoard(id) fails with CardNotFound when id is in no sale
\* window (checked first), otherwise with MaximumReservedCardsExceed when the
\* current player already holds 3 or more reserved cards; otherwise it appends
\* the card to the current player's reserved hand, moves exactly one wildcard
\* from the bank to that player when the bank holds at least one (none
\* otherwise), and leaves every sale window and every deck unchanged, the
\* reserved card staying in its sale window.
C22_ReserveFromBoard ==
    [][(last_action'.type = "ReserveCardFromBoard" /\ action_needed = "Normal") =>
         LET me == player_turn + 1
             id == last_action'.id
             moved == IF bank[Golden] >= 1 THEN 1 ELSE 0
         IN  IF TiersSelling(cards_for_sale, id) = {}
             THEN /\ last_result'.fail = "InvalidReserve"
                  /\ last_result'.detail = "CardNotFound"
             ELSE IF Len(players[me].reserved_cards) >= 3
             THEN /\ last_result'.fail = "InvalidReserve"
                  /\ last_result'.detail = "MaximumReservedCardsExceed"
             ELSE /\ last_result'.ok
                  /\ \E t \in TiersSelling(cards_for_sale, id) :
                        \E i \in DOMAIN cards_for_sale[t] :
                           /\ cards_for_sale[t][i].uid = id
                           /\ players'[me].reserved_cards
                                 = Append(players[me].reserved_cards,
                                          cards_for_sale[t][i])
                  /\ \A p \in Pieces :
                        LET m == IF p = Golden THEN moved ELSE 0
                        IN  /\ bank'[p] = bank[p] - m
                            /\ players'[me].funds[p] = players[me].funds[p] + m
                  /\ cards_for_sale' = cards_for_sale
                  /\ decks' = decks
                  /\ TiersSelling(cards_for_sale', id) # {}]_vars

\* C22 witness: a player holding three reserved cards, the third of them
\* reserved from the board and still in its sale window, was refused a fourth
\* one.
C22_Witness ==
    /\ last_action.type = "ReserveCardFromBoard"
    /\ last_result.detail = "MaximumReservedCardsExceed"
    /\ Len(players[player_turn + 1].reserved_cards) = 3
    /\ TiersSelling(cards_for_sale, players[player_turn + 1].reserved_cards[3].uid) # {}
    /\ bank[Golden] = 0

C24_HandHoldsAtMostThree ==
    \A i \in DOMAIN players : Len(players[i].reserved_cards) <= 3

----------------------------------------------------------------------------
(* Properties of the end of the game, checked under SpecEnd and SpecWinner. *)

\* The points of a player's owned cards.
RECURSIVE PointsOfCards(_)
PointsOfCards(cards) ==
    IF cards = <<>> THEN 0
    ELSE (IF Head(cards).victory_points = <<>> THEN 0
          ELSE Head(cards).victory_points[1])
         + PointsOfCards(Tail(cards))

\* Points of owned cards plus 3 per noble.
TotalPoints(player) == PointsOfCards(player.production_cards) + 3 * Len(player.nobles)

LastSeat == Len(players) - 1

\* C25: the round becomes LastRound in the result of every successful action
\* after which some player's total victory points (points of owned cards plus
\* 3 per noble) are at least 15, and it is monotonic: once LastRound, the
\* round is LastRound in every later state.
C25_LastRoundAtFifteen ==
    [][/\ (last_result'.ok /\ \E i \in DOMAIN players' : TotalPoints(players'[i]) >= 15)
             => round_type' = "LastRound"
       /\ round_type = "LastRound" => round_type' = "LastRound"]_vars

\* C25 witness: a purchase took a player from 14 to exactly 15 points and the
\* round is LastRound.
C25_Witness ==
    /\ Succeeded("BuyCard")
    /\ round_type = "LastRound"
    /\ \E i \in DOMAIN players : TotalPoints(players[i]) = 15
    /\ \A i \in DOMAIN players : TotalPoints(players[i]) <= 15

\* C26: the winner is assigned only when the last seat completes its action
\* during LastRound.  The winner field changes only in a successful,
\* turn-advancing transition whose pre-action current player is the last seat
\* in turn order and whose resulting round is LastRound; in every reachable
\* state a non-empty winner implies round = LastRound; and the action that
\* first sets LastRound, made by a seat other than the last, leaves the winner
\* empty.
C26_WinnerOnlyAfterLastSeat ==
    /\ [](winner # None => round_type = "LastRound")
    /\ [][/\ winner' # winner =>
                /\ last_result'.ok
                /\ player_turn = LastSeat
                /\ player_turn' = NextSeat(player_turn, Len(players))
                /\ action_needed' = "Normal"
                /\ round_type' = "LastRound"
          /\ (round_type = "Normal" /\ round_type' = "LastRound"
                /\ player_turn # LastSeat) =>
                (winner = None /\ winner' = None)]_vars

\* C26 witness: the first seat set LastRound, the winner stayed empty until
\* the last seat had played, and is now assigned.
C26_Witness ==
    /\ winner # None
    /\ round_type = "LastRound"
    /\ last_result.ok
    /\ player_turn = 0
    /\ TotalPoints(players[1]) >= 15
    /\ TotalPoints(players[Len(players)]) < 15

\* The subsequence of the players of a roster that satisfy Keep.
Those(roster, Keep(_)) ==
    LET upto[n \in 0..Len(roster)] ==
            IF n = 0 THEN <<>>
            ELSE upto[n - 1] \o (IF Keep(roster[n]) THEN <<roster[n]>> ELSE <<>>)
    IN  upto[Len(roster)]

\* The winner computation of C27 over a roster.
WinnerOf(roster) ==
    LET best == Those(roster, LAMBDA p :
                    \A i \in DOMAIN roster : TotalPoints(roster[i]) <= TotalPoints(p))
        lean == Those(best, LAMBDA p :
                    \A i \in DOMAIN best :
                        Len(p.production_cards) <= Len(best[i].production_cards))
        ids == [i \in DOMAIN lean |-> lean[i].id]
    IN  IF Len(lean) = 1
        THEN [kind |-> "Winner", ids |-> ids]
        ELSE [kind |-> "Draw", ids |-> ids]

\* C27: winner computation over a roster: take the players with the maximum
\* total victory points, among them those with the fewest owned production
\* cards; if exactly one remains the result is Winner(that player), otherwise
\* Draw listing all remaining players in board player order; the stored
\* winner is this computation applied to the roster as it was before the
\* final action.
C27_WinnerOfThePreActionRoster ==
    [][/\ winner' # winner => winner' = <<WinnerOf(players)>>
       /\ (/\ last_result'.ok
           /\ player_turn = LastSeat
           /\ round_type' = "LastRound"
           /\ action_needed' = "Normal") => winner' = <<WinnerOf(players)>>]_vars

\* C27 witness: the last seat bought a card in the final action; the stored
\* result is a draw between two players, computed on the roster as it stood
\* before the purchase, and is not what the roster after the purchase gives.
C27_Witness ==
    /\ Succeeded("BuyCard")
    /\ winner # None
    /\ winner[1].kind = "Draw"
    /\ Len(winner[1].ids) = 2
    /\ winner[1] # WinnerOf(players)
    /\ \E i \in DOMAIN players : Len(players[i].production_cards) = 2

----------------------------------------------------------------------------
(* Properties of do_action as a whole, checked under Spec. *)

\* The named failures of do_action: the variants of ActionFail.
ActionFails ==
    {"InvalidCollect", "InvalidBuyOperation", "InvalidReserve",
     "CannotReserveFromEmptyDeck", "NobleNotFound", "YouCannotSelectNobleNow",
     "YouNeedToSelectNoble"}

\* C28: every failure leaves the state untouched: whenever do_action returns
\* an ActionFail, no field of the board (bank, players, decks, sale windows,
\* noble pool, phase, round, winner, player_turn) differs from the input
\* board; in particular a SelectNoble naming a noble that is not in the pool
\* fails with NobleNotFound and the board stays in AwaitingNobleSelection with
\* the same current player.
C28_FailureLeavesTheBoard ==
    [][/\ last_result'.fail \in ActionFails =>
             /\ ~last_result'.ok
             /\ bank' = bank /\ players' = players /\ decks' = decks
             /\ cards_for_sale' = cards_for_sale /\ nobles' = nobles
             /\ action_needed' = action_needed /\ round_type' = round_type
             /\ winner' = winner /\ player_turn' = player_turn
       /\ (/\ last_action'.type = "SelectNoble"
           /\ action_needed = "SelectNoble"
           /\ \A i \in DOMAIN nobles : nobles[i].id # last_action'.id) =>
             /\ last_result'.fail = "NobleNotFound"
             /\ action_needed' = "SelectNoble"
             /\ player_turn' = player_turn]_vars

\* C28 witness: a player asked to select a noble named one that is not in the
\* pool, and is still asked to select.
C28_Witness ==
    /\ last_action.type = "SelectNoble"
    /\ last_result.fail = "NobleNotFound"
    /\ action_needed = "SelectNoble"
    /\ \A i \in DOMAIN nobles : nobles[i].id # last_action.id

\* C29: do_action is total: for every board built by Board::new with at least
\* one player and every Action value (any tier, any card id, any noble id, any
\* token lists), it returns either a new board or one of the named ActionFail
\* values, never an uncontrolled fault; in particular the subtraction that
\* computes the tokens spent in a purchase never fails.
C29_DoActionIsTotal ==
    last_action.type # "None" => (last_result.ok \/ last_result.fail \in ActionFails)

\* The phase goes from Normal to AwaitingNobleSelection in this step.
NobleSelectionOpens == action_needed = "Normal" /\ action_needed' = "SelectNoble"

\* C30 as stated: in every execution from an initial board whose players own
\* no production cards, the phase changes from Normal to
\* AwaitingNobleSelection only as the result of a successful BuyCard action,
\* never as the result of PassTurn, CollectPieces or a reservation.
C30_Original ==
    [][NobleSelectionOpens => (last_action'.type = "BuyCard" /\ last_result'.ok)]_vars

\* C30, amended: in every execution from an initial board whose players own
\* no production cards, the phase is Normal as long as no player owns a
\* production card, and it changes from Normal to AwaitingNobleSelection only
\* as the result of a successful BuyCard, or of a successful PassTurn,
\* CollectPieces or reservation made by a player whose owned production
\* cards, bought earlier, already cover a noble that is still in the pool.
C30_SelectionOpensOnlyForAnOwner ==
    /\ []((\A i \in DOMAIN players : players[i].production_cards = <<>>)
             => action_needed = "Normal")
    /\ [][NobleSelectionOpens =>
            /\ last_result'.ok
            /\ \/ last_action'.type = "BuyCard"
               \/ /\ last_action'.type \in {"PassTheTurn", "CollectPieces",
                                            "ReserveCardFromDeck",
                                            "ReserveCardFromBoard"}
                  /\ players[player_turn + 1].production_cards # <<>>
                  /\ \E j \in DOMAIN nobles :
                        /\ Covers(players[player_turn + 1], nobles[j])
                        /\ nobles'[j] = nobles[j]]_vars

\* C30 witness: a player who had bought a card and taken a noble in an
\* earlier turn has passed, and is asked to select a noble again.
C30_Witness ==
    /\ Succeeded("PassTheTurn")
    /\ action_needed = "SelectNoble"
    /\ players[player_turn + 1].nobles # <<>>
    /\ players[player_turn + 1].production_cards # <<>>

----------------------------------------------------------------------------
(* Invariants of whole games. *)

\* The players of `roster` whose id is in `ids`.
Named(roster, ids) ==
    {i \in DOMAIN roster : \E k \in DOMAIN ids : ids[k] = roster[i].id}

\* C31: whenever an action stores a winner, the stored sole winner, or every
\* member of the stored draw, has the maximum total victory points among the
\* players of the board returned by that same action.
C31_WinnerHasTheMostPoints ==
    [][(winner' # winner /\ winner' # None) =>
          \A i \in Named(players', winner'[1].ids) :
              \A j \in DOMAIN players' :
                  TotalPoints(players'[j]) <= TotalPoints(players'[i])]_vars


\* C32: the 10-token storage cap holds as a state invariant: in every state
\* reachable from a board whose players start with at most 10 tokens, every
\* player's stored tokens, all six colours summed, number at most 10.
C32_StoredTokensAtMostTen ==
    \A i \in DOMAIN players : FundsTotal(players[i].funds) <= 10


\* The sequences f[x], x in S, one after the other.
RECURSIVE ConcatOver(_, _)
ConcatOver(f, S) ==
    IF S = {} THEN <<>>
    ELSE LET x == CHOOSE y \in S : TRUE
         IN  f[x] \o ConcatOver(f, S \ {x})

\* Every card of the board, place after place: the decks, the sale windows,
\* the reserved hands and the production cards.
CardsInPlay ==
    ConcatOver(decks, DOMAIN decks)
        \o ConcatOver(cards_for_sale, DOMAIN cards_for_sale)
        \o ConcatOver([i \in DOMAIN players |-> players[i].reserved_cards], DOMAIN players)
        \o ConcatOver([i \in DOMAIN players |-> players[i].production_cards], DOMAIN players)

\* C33: each card is in exactly one place: in every state reachable from a
\* board built from decks with pairwise distinct card ids, every card id
\* occurs at most once across all decks, all sale windows, all players'
\* reserved hands and all players' production cards.
C33_EachCardInOnePlace ==
    \A i, j \in DOMAIN CardsInPlay :
        CardsInPlay[i].uid = CardsInPlay[j].uid => i = j


\* How many entries of `seq` have id `id`.
CountId(seq, id) == Cardinality({k \in DOMAIN seq : seq[k].id = id})

\* How many times the players hold the noble `id`.
RECURSIVE HeldNobles(_, _)
HeldNobles(roster, id) ==
    IF roster = <<>> THEN 0
    ELSE CountId(Head(roster).nobles, id) + HeldNobles(Tail(roster), id)

\* C34: nobles are conserved and acquired at most once: in every state
\* reachable from a board whose nobles have distinct ids, each noble of the
\* initial pool is either in the pool or held by exactly one player, never
\* both, and a noble that left the pool never returns to it.
C34_NoblesConserved ==
    /\ [](\A k \in DOMAIN InitNobles :
            /\ CountId(nobles, InitNobles[k].id) + HeldNobles(players, InitNobles[k].id) = 1
            /\ \A i \in DOMAIN nobles : \E n \in DOMAIN InitNobles : nobles[i] = InitNobles[n]
            /\ \A p \in DOMAIN players : \A i \in DOMAIN players[p].nobles :
                  \E n \in DOMAIN InitNobles : players[p].nobles[i] = InitNobles[n])
    /\ [][\A k \in DOMAIN InitNobles :
            CountId(nobles, InitNobles[k].id) = 0 =>
                CountId(nobles', InitNobles[k].id) = 0]_vars

\* C34 witness: a player took two nobles of the pool in two selections; the
\* pool has lost exactly those two.
C34_Witness ==
    /\ Succeeded("SelectNoble")
    /\ Len(nobles) = Len(InitNobles) - 2
    /\ \E p \in DOMAIN players : Len(players[p].nobles) = 2


\* C35: the state machine never blocks: in every reachable state with phase
\* AwaitingNobleSelection the pool contains at least one noble whose cost the
\* current player's production covers, so some SelectNoble is accepted, and
\* in every reachable state with phase Normal PassTurn is accepted.
C35_NeverBlocks ==
    /\ action_needed = "SelectNoble" =>
          \E j \in DOMAIN nobles :
              /\ Covers(players[player_turn + 1], nobles[j])
              /\ \A r \in do_action(Board, SelectNoble(nobles[j].id)) : r.ok
    /\ action_needed = "Normal" =>
          \A r \in do_action(Board, PassTheTurn) : r.ok

\* C35 witness: a player who is asked to select a noble tried another action,
\* which was refused, and is still asked to select.
C35_Witness ==
    /\ action_needed = "SelectNoble"
    /\ last_result.fail = "YouNeedToSelectNoble"
    /\ \E j \in DOMAIN nobles : Covers(players[player_turn + 1], nobles[j])


\* `old` is the beginning of `new`.
IsPrefix(old, new) ==
    /\ Len(old) <= Len(new)
    /\ \A k \in DOMAIN old : new[k] = old[k]

\* C36: across any sequence of actions each player's production-card list,
\* noble list and reserved hand only grow by appending (no entry is ever
\* removed or reordered, a bought or reserved card never leaves a hand), the
\* player order never changes, and hence no player's total victory points
\* ever decrease.
C36_HandsOnlyGrow ==
    [][/\ Len(players') = Len(players)
       /\ \A i \in DOMAIN players :
             /\ players'[i].id = players[i].id
             /\ IsPrefix(players[i].production_cards, players'[i].production_cards)
             /\ IsPrefix(players[i].nobles, players'[i].nobles)
             /\ IsPrefix(players[i].reserved_cards, players'[i].reserved_cards)
             /\ total_victory_points(players'[i]) >= total_victory_points(players[i])]_vars

\* C36 witness: a player who sat down with two reserved cards has reserved a
\* third, bought a card and taken a noble; the two cards are still the first
\* two of the hand.
C36_Witness ==
    \E i \in DOMAIN players :
        /\ Len(players[i].reserved_cards) = 3
        /\ players[i].reserved_cards[1] = TestCard(21)
        /\ players[i].reserved_cards[2] = TestCard(22)
        /\ players[i].production_cards # <<>>
        /\ players[i].nobles # <<>>
        /\ total_victory_points(players[i]) = 4


----------------------------------------------------------------------------
(* Properties of Funds, checked under SpecFunds. *)

\* b's count is at most a's count for every colour.
Within(b, a) == \A p \in Pieces : b[p] <= a[p]

\* C37: Funds algebra over bounded counts: a + b = b + a and
\* (a + b) + c = a + (b + c) per colour; a - b succeeds if and only if b's
\* count is at most a's count for every colour, and then yields the
\* per-colour difference, so (a + b) - b = a; every result has an entry for
\* all six colours.
C37_FundsAlgebra ==
    LET a == funds_request.a
        b == funds_request.b
        c == funds_request.c
    IN  /\ \A p \in Pieces :
              /\ FundsAdd(a, b)[p] = a[p] + b[p]
              /\ FundsAdd(a, b)[p] = FundsAdd(b, a)[p]
              /\ FundsAdd(FundsAdd(a, b), c)[p] = FundsAdd(a, FundsAdd(b, c))[p]
        /\ DOMAIN FundsAdd(a, b) = Pieces
        /\ \A r \in FundsSub(a, b) :
              /\ r.ok <=> Within(b, a)
              /\ r.ok => (DOMAIN r.funds = Pieces /\ \A p \in Pieces : r.funds[p] = a[p] - b[p])
        /\ \A r \in FundsSub(FundsAdd(a, b), b) : r.ok /\ r.funds = a
        /\ \A k \in DOMAIN funds_response :
              LET r == funds_response[k]
              IN  /\ r.op = "add" => r.funds = [p \in Pieces |-> a[p] + b[p]]
                  /\ r.op = "sub" =>
                        /\ r.ok <=> Within(b, a)
                        /\ r.ok => r.funds = [p \in Pieces |-> a[p] - b[p]]

\* C37 witness: a subtraction was refused because one colour of b exceeds
\* a's count, although a holds more than b of another colour.
C37_Witness ==
    /\ funds_response # <<>>
    /\ funds_response[1].op = "sub"
    /\ ~funds_response[1].ok
    /\ funds_request.a[Red] = 0
    /\ funds_request.b[Red] = 1
    /\ funds_request.a[Golden] > funds_request.b[Golden]

\* C38: converting any Funds value to a list of tokens and tallying that list
\* with new_from_list gives back the same Funds value; the list contains each
\* colour exactly as many times as its count.
C38_ListRoundTrip ==
    \A k \in DOMAIN funds_response :
        funds_response[k].op = "into_vec" =>
            /\ new_from_list(funds_response[k].list) = funds_request.a
            /\ \A p \in Pieces : Tally(funds_response[k].list, p) = funds_request.a[p]
            /\ Len(funds_response[k].list) = FundsTotal(funds_request.a)

\* C38 witness: funds with two wildcards, a Blue and a Red token became the
\* list Blue, Golden, Golden, Red.
C38_Witness ==
    /\ funds_response # <<>>
    /\ funds_response[1].op = "into_vec"
    /\ funds_request.a = FundsNew(1, 0, 1, 0, 0, 2)
    /\ funds_response[1].list = <<Blue, Golden, Golden, Red>>


----------------------------------------------------------------------------
(* Properties of the server loop, checked under SpecServer. *)

\* The message handled in this step is of this type.
Handles(type) == messages_done' = messages_done + 1 /\ last_message'.type = type

\* The boards a successful do_action of `action` returns from the server's
\* board.
AcceptedBoards(action) == {r.board : r \in {x \in do_action(Board, action) : x.ok}}

\* C39: the server loop changes its board on an Action message only when a
\* game has been started and the sender is the node seated at the current
\* player's seat (seat index = current player id - 1), and then only to the
\* board returned by a successful do_action; an Action received before the
\* game starts, from any other sender, or rejected by do_action leaves the
\* server's board unchanged, for every interleaving of messages from several
\* peers.
C39_OnlyTheSeatedPlayerActs ==
    [][Handles("Action") =>
          /\ board_vars' # board_vars =>
                /\ is_game_running
                /\ seats[players[player_turn + 1].id] = last_message'.from
                /\ Board' \in AcceptedBoards(last_message'.action)
          /\ (\/ ~is_game_running
              \/ seats[players[player_turn + 1].id] # last_message'.from
              \/ AcceptedBoards(last_message'.action) = {}) =>
                (board_vars' = board_vars /\ last_reply' # "BoardStateUpdated")
          /\ UNCHANGED <<seats, is_game_running>>]_vars

\* C39 witness: after the first seat's action was applied and the turn moved
\* to the second seat, the node of the first seat sent another action, which
\* was turned away.
C39_Witness ==
    /\ is_game_running
    /\ last_message.type = "Action"
    /\ last_reply = "It is not the players turn yet"
    /\ last_result.ok
    /\ player_turn = 1
    /\ last_message.from = seats[1]
    /\ seats[2] # seats[1]

\* C40: in the server loop a StartGame message starts a game only when at
\* least 2 seats are taken and no game is running; the board is then built
\* for exactly the number of seated nodes, which is always between 2 and 4
\* because a JoinTable is accepted only while fewer than 4 seats are taken; a
\* StartGame received while a game is running never replaces the board.
C40_StartGameSeatsThePlayers ==
    /\ [](Len(seats) <= 4)
    /\ [](is_game_running => Len(players) \in 2..4)
    /\ [][/\ (is_game_running' /\ ~is_game_running) =>
                /\ Handles("StartGame")
                /\ Len(seats) \in 2..4
                /\ Len(players') = Len(seats)
                /\ Board' \in get_original_game_board(Len(seats))
          /\ (Handles("StartGame") /\ Len(seats) >= 2 /\ ~is_game_running) =>
                (is_game_running' /\ Len(players') = Len(seats))
          /\ (Handles("StartGame") /\ (Len(seats) < 2 \/ is_game_running)) =>
                (board_vars' = board_vars /\ is_game_running' = is_game_running)
          /\ seats' # seats =>
                /\ Handles("JoinTable")
                /\ Len(seats) < 4
                /\ seats' = Append(seats, last_message'.from)
          /\ (Handles("JoinTable") /\ Len(seats) >= 4) => seats' = seats
          /\ is_game_running => is_game_running']_vars

\* C40 witness: a fifth JoinTable was turned away, and the game was started
\* for the four seated nodes.
C40_Witness ==
    /\ is_game_running
    /\ last_message.type = "StartGame"
    /\ messages_done = 6
    /\ Len(seats) = 4
    /\ Len(players) = 4
    /\ bank = FundsNew(7, 7, 7, 7, 7, 5)

====
